---- MODULE Spec2Model ----
(***************************************************************************)
(* Camera device lifecycle and stream supervision of the photobooth        *)
(* server: the stream service (one shared preview subprocess), the facade  *)
(* (identity + reconnection poll), the capture chain and the two           *)
(* controllers that guard capture and restart requests.                    *)
(*                                                                         *)
(* Node.js runs one callback at a time, so every action below is one       *)
(* synchronous stretch of code between two suspension points (await,       *)
(* timer, child-process event).                                            *)
(***************************************************************************)
EXTENDS Integers, Sequences, FiniteSets, TLC

\* --------------------------------------------------------------- bounds
MaxProcs == 3          \* subprocess objects that can exist at one time
MaxSetups == 2         \* specialized stream setups pending at one time
MaxReleases == 2       \* stopStream-triggered device releases pending at one time
MaxReqs == 2           \* HTTP requests of one kind modelled per behaviour
MaxCycles == 3         \* reconnection poll cycles recorded
MaxRestarts == 4       \* restart requests modelled per behaviour
MaxViewers == 7        \* preview viewer requests modelled per behaviour
MaxPhotos == 2         \* processPhoto calls
MaxListed == 3         \* capture-capable nodes in one directory listing
MaxChecks == 2         \* reconnection checks in flight at one time
MaxTimerJobs == 2      \* restart requests modelled with the reconnection timer
TickMs == 5000         \* granularity of the wall clock
MaxTime == 20000       \* the wall clock stops here
StartTime == 5000      \* Date.now() of the first step (>= any cooldown)

\* ------------------------------------------------------ program constants
MAX_CAPTURE_OPERATIONS == 1
CAPTURE_COOLDOWN_MS == 5000
RESTART_COOLDOWN_PERIOD == 10000
MAX_RECENT_RESTARTS == 3
MAX_STREAM_CONNECTIONS == 5
CONNECTION_COOLDOWN_MS == 1000
BUSY_STREAM_CONNECTIONS == 3        \* the literal 3 of the viewer rate limit

Null == 0                           \* JavaScript null for paths and handles
Promise5D == -1                     \* the Promise object createMjpegStream returns
NoModel == "null"
NoType == "null"
MJPEG_URL == "/api/camera/mjpeg-stream"
NoUrl == "null"

Pids == 1..MaxProcs
Devices == {1, 2, 3}                \* /dev/video1, /dev/video2, /dev/video3

Types == {"canon", "webcam"}
Models == {"Canon EOS R6 Mark II", "Canon EOS 5D Mark IV", "USB Webcam", "Canon Camera",
           "Canon Camera (manual restart)"}

\* String.prototype.includes over the model names the detection can report
ModelIncludes(model, sub) ==
  CASE sub = "R6 Mark II" -> model = "Canon EOS R6 Mark II"
    [] sub = "R6"         -> model = "Canon EOS R6 Mark II"
    [] sub = "5D Mark IV" -> model = "Canon EOS 5D Mark IV"
    [] sub = "5D"         -> model = "Canon EOS 5D Mark IV"
    [] sub = "EOS 5D"     -> model = "Canon EOS 5D Mark IV"
    [] OTHER              -> FALSE

\* devicePath.includes('/dev/video1'): /dev/video1 and /dev/video10../dev/video19
PathIncludesVideo1(devicePath) ==
  devicePath = 1 \/ (devicePath >= 10 /\ devicePath <= 19)

IsR6(devicePath, cameraType, cameraModel) ==
  /\ cameraModel # NoModel
  /\ \/ ModelIncludes(cameraModel, "R6 Mark II")
     \/ ModelIncludes(cameraModel, "R6")
     \/ (cameraType = "canon" /\ PathIncludesVideo1(devicePath))

Is5D(cameraModel) ==
  /\ cameraModel # NoModel
  /\ \/ ModelIncludes(cameraModel, "5D Mark IV")
     \/ ModelIncludes(cameraModel, "5D")
     \/ ModelIncludes(cameraModel, "EOS 5D")

\* ------------------------------------------------------------------ state
VARIABLES
  now,                 \* Date.now()
  proc,                \* the ffmpeg subprocesses: Pids -> record
  mjpegProcess,        \* CameraStreamService.mjpegProcess
  mjpegUrl,            \* CameraStreamService.mjpegUrl
  r6setups,            \* pending setupSpecializedR6Stream calls, by phase
  d5setups,            \* pending createMjpegStream calls: their devicePath
  releases,            \* detached releaseDevices() calls not yet at their kill step
  cameraConnected,     \* CameraService.cameraConnected
  cameraType,          \* CameraService.cameraType
  cameraModel,         \* CameraService.cameraModel
  v4l2Device,          \* CameraService.v4l2Device
  svcMjpegProcess,     \* CameraService.mjpegProcess (the facade's copy)
  svcInit,             \* position of CameraService.init
  timerArmed,          \* DeviceManagerService.reconnectionTimer is set
  intervals,           \* the intervals armed in the event loop, oldest first
  reconnectionInterval, \* DeviceManagerService.reconnectionInterval
  unhandled,           \* a timer tick has rejected with nobody to catch it
  polls,               \* checkCameraReconnection calls awaiting detection
  cycleLog,            \* history: what each completed poll cycle saw and did
  lastEvent,           \* history: the operation that last touched the stream
  activeCaptureOperations,
  lastCaptureAttempt,
  caps,                \* capture requests: position in the handler and chain
  placeholder,         \* public/mock_images/sample2.jpg exists
  restartInProgress,
  recentRestarts,
  restarts,            \* restart requests: position in the handler
  activeStreamConnections,
  lastStreamAttempt,
  viewers,             \* preview viewer requests: position in the handler
  moduleLoaded,        \* the kernel has v4l2loopback loaded
  isRoot,              \* SetupService.isRoot: the server runs as root
  depsInstalled,       \* the host has ffmpeg, v4l2-ctl, modprobe, gphoto2, the module package
  setupStatus,         \* DeviceManagerService.setupStatus
  svcSetupStatus,      \* CameraService.setupStatus
  verInput,            \* what the last verifyDevice call was shown
  verResult,           \* how the last verifyDevice call ended
  selInput,            \* what the last device selection was shown
  selResult,           \* the node each selection rule chose for it
  photos,              \* processPhoto calls: position, files on disk, descriptor
  checkedDevices,      \* CameraDetectionService.checkedDevices
  detInput,            \* what the last detection cycle saw
  detResult            \* what the last detection cycle returned

streamVars == <<proc, mjpegProcess, mjpegUrl, r6setups, d5setups, releases>>
facadeVars == <<cameraConnected, cameraType, cameraModel, v4l2Device, svcMjpegProcess>>
timerVars == <<timerArmed, intervals, reconnectionInterval, unhandled>>
pollVars == <<svcInit, timerVars, polls, cycleLog>>
captureVars == <<activeCaptureOperations, lastCaptureAttempt, caps, placeholder>>
restartVars == <<restartInProgress, recentRestarts, restarts>>
viewerVars == <<activeStreamConnections, lastStreamAttempt, viewers>>
detectVars == <<checkedDevices, detInput, detResult>>
setupVars == <<isRoot, depsInstalled, setupStatus, svcSetupStatus>>
probeVars == <<verInput, verResult, selInput, selResult, photos>>
hostVars == <<moduleLoaded, detectVars, probeVars, setupVars>>
vars == <<now, streamVars, facadeVars, pollVars, captureVars, restartVars, viewerVars, hostVars, lastEvent>>

\* -------------------------------------------------------------- processes
\* st: "free" (no such process object: never spawned, or its close event was
\* delivered), "alive", "exited" (the OS process is gone, 'close' not yet
\* delivered). wired: setupStreamErrorHandling registered onStreamEnd on it.
FreeProc == [st |-> "free", kind |-> "none", dev |-> Null, wired |-> FALSE, code |-> 0]

\* A world is the part of the state the stream service's methods read and write.
World ==
  [proc |-> proc, mjpegProcess |-> mjpegProcess, mjpegUrl |-> mjpegUrl,
   r6setups |-> r6setups, d5setups |-> d5setups, releases |-> releases,
   svcMjpegProcess |-> svcMjpegProcess]

FreePids(W) ==
  {p \in Pids : W.proc[p].st = "free" /\ p # W.mjpegProcess /\ p # W.svcMjpegProcess}

CanSpawn(W) == FreePids(W) # {}

NewPid(W) == CHOOSE p \in FreePids(W) : \A q \in FreePids(W) : p <= q

\* child_process.spawn('ffmpeg', ...)
spawn(W, kind, dev, wired) ==
  [W EXCEPT !.proc[NewPid(W)] =
     [st |-> "alive", kind |-> kind, dev |-> dev, wired |-> wired, code |-> 0]]

\* process.kill(signal): the OS process ends; its 'close' event comes later
kill(pr, p) ==
  IF pr[p].st = "alive" THEN [pr EXCEPT ![p].st = "exited", ![p].code = 1] ELSE pr

\* every process whose command line contains "ffmpeg"
FfmpegAlive(pr) == {p \in Pids : pr[p].st = "alive"}

KillAllFfmpeg(pr) ==
  [p \in Pids |-> IF pr[p].st = "alive" THEN [pr[p] EXCEPT !.st = "exited", !.code = 1] ELSE pr[p]]

LiveStreams(pr) == {p \in Pids : pr[p].st = "alive" /\ pr[p].kind = "stream"}

\* --------------------------------------------------------- stream service
\* a callback that clears the handle and leaves the URL
onStreamEndKeepsUrl(W) == [W EXCEPT !.mjpegProcess = Null]

\* onStreamEnd, the callback startStream hands to setupStreamErrorHandling
onStreamEnd(W) == [W EXCEPT !.mjpegProcess = Null, !.mjpegUrl = NoUrl]

setupMjpegStream(W, devicePath) ==
  IF devicePath = Null THEN W
  ELSE [spawn(W, "stream", devicePath, TRUE) EXCEPT
          !.mjpegProcess = NewPid(W), !.mjpegUrl = MJPEG_URL]

\* a stream service that starts a stream whether or not it holds a handle
startStreamAlways(W, devicePath, cType, cModel) ==
  IF devicePath = Null THEN W
  ELSE IF IsR6(devicePath, cType, cModel)
    THEN [W EXCEPT !.r6setups.release = @ + 1]
  ELSE IF Is5D(cModel)
    THEN [W EXCEPT !.mjpegProcess = Promise5D, !.mjpegUrl = MJPEG_URL,
                   !.d5setups = Append(@, devicePath)]
  ELSE setupMjpegStream(W, devicePath)

\* CameraStreamService.startStream: the world it leaves; the handle and URL it
\* returns are the ones of that world
startStream(W, devicePath, cType, cModel) ==
  IF W.mjpegProcess # Null THEN W
  ELSE IF devicePath = Null THEN W
  ELSE IF IsR6(devicePath, cType, cModel)
    THEN [W EXCEPT !.r6setups.release = @ + 1]
  ELSE IF Is5D(cModel)
    THEN [W EXCEPT !.mjpegProcess = Promise5D, !.mjpegUrl = MJPEG_URL,
                   !.d5setups = Append(@, devicePath)]
  ELSE setupMjpegStream(W, devicePath)

\* a stream service whose stopStream signals the process but keeps the handle
stopStreamKeepingHandle(W) ==
  LET h == W.mjpegProcess
      killed == IF h \in Pids THEN kill(W.proc, h) ELSE W.proc
  IN [W EXCEPT !.proc = killed, !.mjpegUrl = NoUrl, !.releases = @ + 1]

\* CameraStreamService.stopStream: the handle's process is signalled (a kill
\* that throws is caught), handle and URL are cleared, releaseDevices is started
stopStream(W) ==
  LET h == W.mjpegProcess
      killed == IF h \in Pids THEN kill(W.proc, h) ELSE W.proc
  IN [W EXCEPT !.proc = killed, !.mjpegProcess = Null, !.mjpegUrl = NoUrl,
               !.releases = @ + 1]

\* device choice of setupSpecializedR6Stream among the capture-capable nodes
R6StreamDevice(captureDevices) ==
  IF 2 \in captureDevices THEN 2
  ELSE IF 1 \in captureDevices THEN 1
  ELSE CHOOSE d \in captureDevices : \A e \in captureDevices : e <= d

SetWorld(W) ==
  /\ proc' = W.proc
  /\ mjpegProcess' = W.mjpegProcess
  /\ mjpegUrl' = W.mjpegUrl
  /\ r6setups' = W.r6setups
  /\ d5setups' = W.d5setups
  /\ releases' = W.releases
  /\ svcMjpegProcess' = W.svcMjpegProcess

\* room for the asynchronous work a startStream / stopStream may leave behind
Room(W) ==
  /\ W.r6setups.release + W.r6setups.scan < MaxSetups
  /\ Len(W.d5setups) < MaxSetups
  /\ W.releases < MaxReleases
  /\ CanSpawn(W)

othersOfStream == <<now, cameraConnected, cameraType, cameraModel, v4l2Device,
                    pollVars, captureVars, restartVars, viewerVars, hostVars>>

\* a caller invokes streamer.startStream(devicePath, cameraType, cameraModel)
StartStream(devicePath, cType, cModel) ==
  /\ Room(World)
  /\ SetWorld(startStream(World, devicePath, cType, cModel))
  /\ lastEvent' = "start"
  /\ UNCHANGED othersOfStream

\* a caller invokes streamer.stopStream()
StopStream ==
  /\ Room(World)
  /\ SetWorld(stopStream(World))
  /\ lastEvent' = "stop"
  /\ UNCHANGED othersOfStream

\* releaseDevices() started by stopStream: ps lists the ffmpeg processes and
\* each is sent SIGTERM
ReleaseDevicesKill ==
  /\ releases > 0
  /\ releases' = releases - 1
  /\ proc' = KillAllFfmpeg(proc)
  /\ UNCHANGED <<mjpegProcess, mjpegUrl, r6setups, d5setups, svcMjpegProcess, lastEvent, othersOfStream>>

\* setupSpecializedR6Stream up to the end of its 'await releaseDevices()'
R6Release ==
  /\ r6setups.release > 0
  /\ r6setups' = [release |-> r6setups.release - 1, scan |-> r6setups.scan + 1]
  /\ proc' = KillAllFfmpeg(proc)
  /\ UNCHANGED <<mjpegProcess, mjpegUrl, d5setups, releases, svcMjpegProcess, lastEvent, othersOfStream>>

\* setupSpecializedR6Stream from the device scan to its return, and the
\* .then of startStream that runs on its result
R6Spawn(captureDevices) ==
  /\ r6setups.scan > 0
  /\ CanSpawn(World)
  /\ LET W0 == [World EXCEPT !.r6setups.scan = @ - 1]
         W1 == spawn(W0, "stream", R6StreamDevice(captureDevices), TRUE)
         p == NewPid(W0)
     IN IF captureDevices = {}
          THEN SetWorld(W0)
          ELSE IF W1.mjpegProcess = Null
                 THEN SetWorld([W1 EXCEPT !.mjpegProcess = p, !.mjpegUrl = MJPEG_URL])
                 ELSE SetWorld(W1)
  /\ UNCHANGED <<lastEvent, othersOfStream>>

\* createMjpegStream after its awaits: the 5D preview ffmpeg is spawned; the
\* caller holds the Promise, so nothing is recorded and nothing is wired
D5Spawn(streamDevice) ==
  /\ d5setups # <<>>
  /\ CanSpawn(World)
  /\ SetWorld([spawn(World, "stream", streamDevice, FALSE) EXCEPT !.d5setups = Tail(@)])
  /\ UNCHANGED <<lastEvent, othersOfStream>>

\* a preview subprocess ends by itself (device unplugged, ffmpeg error)
StreamExit(p) ==
  /\ proc[p].st = "alive" /\ proc[p].kind = "stream"
  /\ proc' = [proc EXCEPT ![p].st = "exited", ![p].code = 1]
  /\ lastEvent' = "exit"
  /\ UNCHANGED <<mjpegProcess, mjpegUrl, r6setups, d5setups, releases, svcMjpegProcess, othersOfStream>>

\* 'close' of a preview subprocess: setupStreamErrorHandling calls onStreamEnd
StreamClose(p) ==
  /\ proc[p].st = "exited" /\ proc[p].kind = "stream"
  /\ LET W0 == [World EXCEPT !.proc[p] = FreeProc]
     IN SetWorld(IF proc[p].wired THEN onStreamEnd(W0) ELSE W0)
  /\ UNCHANGED <<lastEvent, othersOfStream>>

\* a watchdog that signals the subprocess and leaves the clearing of the
\* handle to its 'close' event
WatchdogKillOnly(p) ==
  /\ proc[p].st = "alive" /\ proc[p].kind = "stream" /\ proc[p].wired
  /\ SetWorld([World EXCEPT !.proc = kill(@, p)])
  /\ lastEvent' = "watchdog"
  /\ UNCHANGED othersOfStream

\* stderr 'data' with 'No such device', 'Device or resource busy' or 'Not a
\* video capture device' (both branches do the same): kill + onStreamEnd
Watchdog(p) ==
  /\ proc[p].st = "alive" /\ proc[p].kind = "stream" /\ proc[p].wired
  /\ SetWorld(onStreamEnd([World EXCEPT !.proc = kill(@, p)]))
  /\ lastEvent' = "watchdog"
  /\ UNCHANGED othersOfStream

\* ------------------------------------------------------------------ facade
NoCamera == [detected |-> FALSE, device |-> Null, type |-> NoType, model |-> NoModel]

\* what detectCamera can report
Detections ==
  {NoCamera} \cup
  {[detected |-> TRUE, device |-> d, type |-> tm[1], model |-> tm[2]] :
     d \in {1, 2},
     tm \in {<<"canon", "Canon EOS R6 Mark II">>, <<"webcam", "USB Webcam">>}}

\* the detection results that report a webcam, or nothing
WebcamDetections == {res \in Detections : res.type # "canon"}

\* CameraService.startCameraStream
startCameraStream(W, device, cType, cModel) ==
  IF device = Null THEN W
  ELSE LET W1 == startStream(W, device, cType, cModel)
       IN [W1 EXCEPT !.svcMjpegProcess = W1.mjpegProcess]

\* CameraService.stopCameraStream
stopCameraStream(W) == [stopStream(W) EXCEPT !.svcMjpegProcess = Null]

\* CameraService.checkCameraAvailability, after detectCamera has answered
checkCameraAvailability(res) ==
  /\ v4l2Device' = IF res.detected THEN res.device ELSE v4l2Device
  /\ cameraType' = IF res.detected THEN res.type ELSE cameraType
  /\ cameraModel' = IF res.detected THEN res.model ELSE cameraModel

\* the reconnection intervals of the two camera families, in ms
StandardReconnectionInterval == 2000
CanonReconnectionInterval == 10000

\* clearInterval(this.reconnectionTimer): the handle is the interval armed last
clearReconnectionTimer ==
  IF timerArmed THEN SubSeq(intervals, 1, Len(intervals) - 1) ELSE intervals

\* a device manager that arms a new interval without clearing the old one
startReconnectionTimerLeaking(callback) ==
  /\ intervals' = Append(intervals,
                         [callback |-> callback, ms |-> reconnectionInterval])
  /\ timerArmed' = TRUE
  /\ UNCHANGED <<reconnectionInterval, unhandled>>

\* DeviceManagerService.startReconnectionTimer; callback says whether a
\* reconnection callback was passed
startReconnectionTimer(callback) ==
  /\ intervals' = Append(clearReconnectionTimer,
                         [callback |-> callback, ms |-> reconnectionInterval])
  /\ timerArmed' = TRUE
  /\ UNCHANGED <<reconnectionInterval, unhandled>>

\* the families detectCanonR6 can report for a verified node; "none" when it
\* reports nothing (an output node that does not match the R6 pattern)
Modes == {"none", "r6", "5d", "standard"}

\* DeviceManagerService.setCameraMode: the interval of the family, and a
\* running timer stopped and started again, with no callback argument
setCameraMode(mode) ==
  IF mode = "none" THEN UNCHANGED timerVars
  ELSE
    /\ reconnectionInterval' = IF mode \in {"r6", "5d"} THEN CanonReconnectionInterval
                                ELSE StandardReconnectionInterval
    /\ intervals' = IF timerArmed
                       THEN Append(clearReconnectionTimer,
                                   [callback |-> FALSE, ms |-> reconnectionInterval'])
                       ELSE intervals
    /\ UNCHANGED <<timerArmed, unhandled>>

\* a setup status: success, setupType, needsRoot, whether it carries a
\* message and the remediation instructions
Status(success, setupType, needsRoot, instructions) ==
  [success |-> success, setupType |-> setupType, needsRoot |-> needsRoot,
   message |-> TRUE, instructions |-> instructions]

\* the needsSetup field of a status: every status the services build has it
\* true exactly when success is false
needsSetup(status) == ~status.success

\* setupStatus = null
NoStatus ==
  [success |-> FALSE, setupType |-> "null", needsRoot |-> FALSE,
   message |-> FALSE, instructions |-> FALSE]

\* what modprobe does when tryLoadV4L2Loopback runs it: the first command
\* loads the module, the first throws and the one with simpler parameters
\* loads it, the first returns without the module loaded, or both throw
ModprobeOutcomes == {"ok", "retry", "silent", "fails"}

\* a setup service that runs modprobe whoever the user is; without root the
\* commands throw
tryLoadV4L2LoopbackUnchecked(loaded, root, modprobe) ==
  IF loaded
    THEN [success |-> TRUE, needsRoot |-> FALSE, message |-> TRUE, loaded |-> TRUE,
          commands |-> 0]
  ELSE IF root /\ modprobe = "ok"
    THEN [success |-> TRUE, needsRoot |-> FALSE, message |-> TRUE, loaded |-> TRUE,
          commands |-> 1]
  ELSE IF root /\ modprobe = "retry"
    THEN [success |-> TRUE, needsRoot |-> FALSE, message |-> TRUE, loaded |-> TRUE,
          commands |-> 2]
  ELSE IF root /\ modprobe = "silent"
    THEN [success |-> FALSE, needsRoot |-> FALSE, message |-> TRUE, loaded |-> FALSE,
          commands |-> 1]
  ELSE [success |-> FALSE, needsRoot |-> FALSE, message |-> TRUE, loaded |-> FALSE,
        commands |-> 2]

\* SetupService.tryLoadV4L2Loopback on Linux: what it returns, whether the
\* module is loaded afterwards and how many modprobe commands it ran
tryLoadV4L2Loopback(loaded, root, modprobe) ==
  IF loaded
    THEN [success |-> TRUE, needsRoot |-> FALSE, message |-> TRUE, loaded |-> TRUE,
          commands |-> 0]
  ELSE IF ~root
    THEN [success |-> FALSE, needsRoot |-> TRUE, message |-> TRUE, loaded |-> FALSE,
          commands |-> 0]
  ELSE IF modprobe = "ok"
    THEN [success |-> TRUE, needsRoot |-> FALSE, message |-> TRUE, loaded |-> TRUE,
          commands |-> 1]
  ELSE IF modprobe = "retry"
    THEN [success |-> TRUE, needsRoot |-> FALSE, message |-> TRUE, loaded |-> TRUE,
          commands |-> 2]
  ELSE IF modprobe = "silent"
    THEN [success |-> FALSE, needsRoot |-> FALSE, message |-> TRUE, loaded |-> FALSE,
          commands |-> 1]
  ELSE [success |-> FALSE, needsRoot |-> FALSE, message |-> TRUE, loaded |-> FALSE,
        commands |-> 2]

\* DeviceManagerService.init on Linux: the status it leaves and whether the
\* module is loaded afterwards; it returns true on every path modelled here
deviceManagerInit(status, loaded, deps, root, modprobe) ==
  LET afterDeps == IF deps THEN status
                   ELSE Status(FALSE, "dependencies", FALSE, TRUE)
      loadResult == tryLoadV4L2Loopback(loaded, root, modprobe)
  IN [setupStatus |-> IF ~loaded /\ ~loadResult.success
                        THEN Status(FALSE, "module", loadResult.needsRoot, TRUE)
                        ELSE afterDeps,
      moduleLoaded |-> loadResult.loaded]

\* DeviceManagerService.getSetupStatus('camera')
getSetupStatus(status) ==
  IF status # NoStatus THEN status ELSE Status(FALSE, "camera", FALSE, TRUE)

\* the status CameraService.init records from the detection result
InitStatus(res, status) ==
  IF res.detected THEN Status(TRUE, "null", FALSE, FALSE) ELSE getSetupStatus(status)

\* CameraService.init up to 'await this.checkCameraAvailability()':
\* deviceManager.init, with modprobe behaving as given if it is run
InitBegin(modprobe) ==
  /\ svcInit = "new"
  /\ svcInit' = "detecting"
  /\ LET dm == deviceManagerInit(setupStatus, moduleLoaded, depsInstalled, isRoot, modprobe)
     IN /\ moduleLoaded' = dm.moduleLoaded
        /\ setupStatus' = dm.setupStatus
  /\ UNCHANGED <<now, streamVars, facadeVars, timerVars, polls, cycleLog,
                 captureVars, restartVars, viewerVars, detectVars, probeVars, isRoot,
                 depsInstalled, svcSetupStatus, lastEvent>>

\* CameraService.init from the detection result to its return
InitEnd(res) ==
  /\ svcInit = "detecting"
  /\ Room(World)
  /\ svcInit' = "done"
  /\ checkCameraAvailability(res)
  /\ cameraConnected' = res.detected
  /\ SetWorld(IF res.detected
                THEN startCameraStream(World, res.device, res.type, res.model)
                ELSE World)
  /\ startReconnectionTimer(TRUE)
  /\ svcSetupStatus' = InitStatus(res, setupStatus)
  /\ lastEvent' = "init"
  /\ UNCHANGED <<now, polls, cycleLog, captureVars, restartVars, viewerVars,
                 moduleLoaded, detectVars, probeVars, isRoot, depsInstalled, setupStatus>>

\* CameraService.checkCameraReconnection up to its await: the snapshot
Snapshot ==
  [connected |-> cameraConnected, type |-> cameraType, model |-> cameraModel,
   device |-> v4l2Device]

\* a facade that ignores a camera that appears while none is connected
TransitionNoReconnect(prev, res) ==
  IF prev.connected /\ ~res.detected THEN "disconnect"
  ELSE IF prev.connected /\ res.detected
          /\ (prev.device # res.device \/ prev.type # res.type \/ prev.model # res.model)
    THEN "change"
  ELSE "same"

\* a facade that restarts the stream in every cycle that finds a camera
\* while one is connected
TransitionRestarting(prev, res) ==
  IF ~prev.connected /\ res.detected THEN "connect"
  ELSE IF prev.connected /\ ~res.detected THEN "disconnect"
  ELSE IF prev.connected /\ res.detected THEN "change"
  ELSE "same"

\* the transition a cycle takes, from its snapshot and the detection result
Transition(prev, res) ==
  IF ~prev.connected /\ res.detected THEN "connect"
  ELSE IF prev.connected /\ ~res.detected THEN "disconnect"
  ELSE IF prev.connected /\ res.detected
          /\ (prev.device # res.device \/ prev.type # res.type \/ prev.model # res.model)
    THEN "change"
  ELSE "same"

\* a tick of an armed interval that holds the reconnection check, the
\* previous cycle having finished (the tick calls the check on either branch
\* of its isCanonR6 test)
PollBegin ==
  /\ \E i \in DOMAIN intervals : intervals[i].callback
  /\ polls = <<>>
  /\ polls' = <<Snapshot>>
  /\ UNCHANGED <<now, streamVars, facadeVars, svcInit, timerVars, cycleLog,
                 captureVars, restartVars, viewerVars, hostVars, lastEvent>>

\* the device manager's onDeviceChange fires: the facade's subscription calls
\* checkCameraReconnection, which takes its snapshot and awaits detection,
\* whether or not another check is in flight
DeviceChange ==
  /\ svcInit # "new"
  /\ Len(polls) < MaxChecks
  /\ polls' = Append(polls, Snapshot)
  /\ UNCHANGED <<now, streamVars, facadeVars, svcInit, timerVars, cycleLog,
                 captureVars, restartVars, viewerVars, hostVars, lastEvent>>

\* a tick of an armed interval that was started without a callback: calling
\* reconnectionCallback throws a TypeError inside the async arrow function,
\* whose promise nobody handles; no reconnection check runs
PollThrow ==
  /\ \E i \in DOMAIN intervals : ~intervals[i].callback
  /\ unhandled' = TRUE
  /\ UNCHANGED <<now, streamVars, facadeVars, svcInit, timerArmed, intervals,
                 reconnectionInterval, polls, cycleLog, captureVars, restartVars,
                 viewerVars, hostVars, lastEvent>>

\* checkCameraReconnection from the detection result to its return; logged
\* says whether the history of cycles is kept
PollStep(res, logged) ==
  /\ polls # <<>>
  /\ Room(World)
  /\ LET prev == Head(polls)
         t == Transition(prev, res)
         W1 == IF t \in {"disconnect", "change"} THEN stopCameraStream(World) ELSE World
         W2 == IF t \in {"connect", "change"}
                 THEN startCameraStream(W1, v4l2Device', cameraType', cameraModel')
                 ELSE W1
     IN /\ checkCameraAvailability(res)
        /\ cameraConnected' = (IF t = "connect" THEN TRUE
                               ELSE IF t = "disconnect" THEN FALSE
                               ELSE cameraConnected)
        /\ SetWorld(W2)
        /\ cycleLog' = IF logged
                          THEN Append(cycleLog,
                                 [device |-> res.device, did |-> t,
                                  prevConnected |-> prev.connected,
                                  started |-> IF t \in {"connect", "change"}
                                                THEN v4l2Device' ELSE Null])
                          ELSE cycleLog
        /\ lastEvent' = IF t = "same" THEN lastEvent ELSE t
  /\ polls' = Tail(polls)
  /\ UNCHANGED <<now, svcInit, timerVars, captureVars, restartVars, viewerVars, hostVars>>

PollEnd(res) == PollStep(res, FALSE)

\* the same two steps with the history of the first MaxCycles cycles kept
CycleBegin == Len(cycleLog) < MaxCycles /\ PollBegin

CycleEnd(res) == PollStep(res, TRUE)

\* ---------------------------------------------------------------- capture
\* device choice of captureWithR6 among the capture-capable nodes:
\* dev.includes('/dev/video2') || dev.includes('/dev/video1') are preferred
PathIncludesVideo2(devicePath) ==
  devicePath = 2 \/ (devicePath >= 20 /\ devicePath <= 29)

MinOf(S) == CHOOSE d \in S : \A e \in S : d <= e
MaxOf(S) == CHOOSE d \in S : \A e \in S : e <= d

\* the nodes of a listing
Range(listed) == {listed[i] : i \in DOMAIN listed}

\* device choice of captureWithR6: listed are the capture-capable nodes in
\* the order readdirSync('/dev') gave them
R6CaptureDevice(listed) ==
  LET preferred == SelectSeq(listed, LAMBDA d : PathIncludesVideo2(d) \/ PathIncludesVideo1(d))
  IN IF preferred # <<>>
       THEN IF 2 \in Range(preferred) THEN 2 ELSE preferred[1]
       ELSE MaxOf(Range(listed))

\* the nodes of S in ascending order
RECURSIVE Ascending(_)
Ascending(S) == IF S = {} THEN <<>> ELSE <<MinOf(S)>> \o Ascending(S \ {MinOf(S)})

\* a device choice that falls back to the lowest-numbered node scanned
Mk5dLowestDevice(devicePath, listed, marked) ==
  LET scanned == IF marked = Null THEN listed
                 ELSE SubSeq(listed, 1,
                        CHOOSE i \in DOMAIN listed : listed[i] = marked)
      found == IF marked = Null THEN devicePath ELSE marked
      working == SelectSeq(scanned, LAMBDA d : d \in {14, 15, 21, 22})
  IN IF found = devicePath /\ scanned # <<>>
       THEN IF working # <<>> THEN working[1]
            ELSE MinOf(Range(scanned))
       ELSE found

\* device choice of captureWith5D, and of createMjpegStream, which repeats
\* it: listed are the capture-capable nodes in the order readdirSync('/dev')
\* gave them, marked is the one whose introspection names the 5D (Null if
\* none); the scan stops at it
Mk5dCaptureDevice(devicePath, listed, marked) ==
  LET scanned == IF marked = Null THEN listed
                 ELSE SubSeq(listed, 1,
                        CHOOSE i \in DOMAIN listed : listed[i] = marked)
      found == IF marked = Null THEN devicePath ELSE marked
      working == SelectSeq(scanned, LAMBDA d : d \in {14, 15, 21, 22})
      sorted == Ascending(Range(scanned))
  IN IF found = devicePath /\ scanned # <<>>
       THEN IF working # <<>> THEN working[1]
            ELSE sorted[(Len(sorted) \div 2) + 1]
       ELSE found

\* a capture request: pc is the handler's position, status the HTTP answer,
\* file whether the output file exists, finish / close whether that event of
\* the response has run cleanupCapture, timer the controller's restart timer,
\* at the time of the answer of a request that was admitted
NoCap ==
  [pc |-> "none", status |-> 0, special |-> "none", dev |-> Null, captureDevice |-> Null,
   pid |-> Null, file |-> FALSE, finish |-> FALSE, close |-> FALSE, timer |-> FALSE,
   at |-> 0]

Reqs == 1..MaxReqs

ChainPcs == {"special", "specialRun", "std", "stdDelay", "stdRun", "fallback", "fbRun"}

\* the handler of a capture request, or the chain under it, is still running
InFlight(c) == c.pc \in ChainPcs \cup {"aws", "post"}

\* a live preview subprocess holds dev
StreamOn(pr, dev) == \E p \in LiveStreams(pr) : pr[p].dev = dev

\* cleanupCapture
cleanupCapture(n) == IF n - 1 > 0 THEN n - 1 ELSE 0

\* a request whose answer is out, whose connection is closed and whose timer
\* has fired leaves nothing behind but its status
Settle(c) ==
  IF c.pc = "responded" /\ c.close /\ ~c.timer
    THEN [NoCap EXCEPT !.pc = "done", !.status = c.status, !.at = c.at]
    ELSE c

\* the controller answers: only the events of the response are still to come
Respond(c, status, timer) ==
  [NoCap EXCEPT !.pc = "responded", !.status = status, !.timer = timer,
                !.finish = c.finish, !.close = c.close, !.at = now]

othersOfCapture == <<now, facadeVars, pollVars, restartVars, viewerVars, hostVars, streamVars, lastEvent, placeholder>>
othersOfChain == <<now, cameraConnected, cameraType, cameraModel, v4l2Device, placeholder,
                   pollVars, restartVars, viewerVars, hostVars, activeCaptureOperations, lastCaptureAttempt>>

\* controller capturePhoto up to 'await s3.send(...)'
CaptureRequest ==
  /\ Len(caps) < MaxReqs
  /\ IF activeCaptureOperations >= MAX_CAPTURE_OPERATIONS
          \/ now - lastCaptureAttempt < CAPTURE_COOLDOWN_MS
       THEN /\ caps' = Append(caps, [NoCap EXCEPT !.pc = "done", !.status = 429])
            /\ UNCHANGED <<activeCaptureOperations, lastCaptureAttempt>>
       ELSE /\ lastCaptureAttempt' = now
            /\ activeCaptureOperations' = activeCaptureOperations + 1
            /\ caps' = Append(caps, [NoCap EXCEPT !.pc = "aws"])
  /\ UNCHANGED othersOfCapture

\* a capture service that takes the word of the method that ended the chain
ChainEndTrusting(c) ==
  [NoCap EXCEPT !.pc = "post", !.file = c.file, !.finish = c.finish, !.close = c.close]

\* the chain has ended: CameraCaptureService.capturePhoto checks the file and
\* returns; CameraService.capturePhoto then awaits processPhoto or throws, and
\* on a throw the controller answers 500
ChainEnd(c) ==
  IF c.file
    THEN [NoCap EXCEPT !.pc = "post", !.file = TRUE, !.finish = c.finish, !.close = c.close]
    ELSE Settle(Respond(c, 500, FALSE))

\* after the AWS check: CameraService.capturePhoto and
\* CameraCaptureService.capturePhoto up to the first await of the first method
CapStart(r) ==
  /\ r \in DOMAIN caps /\ caps[r].pc = "aws"
  /\ caps' = [caps EXCEPT ![r] =
       IF v4l2Device = Null
         THEN Settle(Respond(@, 500, FALSE))
         ELSE [@ EXCEPT !.dev = v4l2Device,
                        !.special = IF IsR6(v4l2Device, cameraType, cameraModel) THEN "r6"
                                    ELSE IF Is5D(cameraModel) THEN "5d" ELSE "none",
                        !.pc = IF IsR6(v4l2Device, cameraType, cameraModel)
                                  \/ Is5D(cameraModel) THEN "special" ELSE "std"]]
  /\ UNCHANGED <<activeCaptureOperations, lastCaptureAttempt, othersOfCapture>>

\* captureWithR6 / captureWith5D from the device scan to the spawn
CapSpecialSpawn(r, captureDevices, marked) ==
  /\ r \in DOMAIN caps /\ caps[r].pc = "special"
  /\ CanSpawn(World)
  /\ marked \in captureDevices \cup {Null}
  /\ LET c == caps[r]
         d == IF c.special = "r6" THEN R6CaptureDevice(Ascending(captureDevices))
              ELSE Mk5dCaptureDevice(c.dev, Ascending(captureDevices), marked)
     IN IF c.special = "r6" /\ captureDevices = {}
          THEN /\ caps' = [caps EXCEPT ![r].pc = "std"]
               /\ UNCHANGED <<streamVars, svcMjpegProcess>>
          ELSE /\ SetWorld(spawn(World, "capture", d, FALSE))
               /\ caps' = [caps EXCEPT ![r].pc = "specialRun", ![r].pid = NewPid(World),
                                       ![r].captureDevice = d]
  /\ UNCHANGED <<othersOfChain, lastEvent>>

\* a capture subprocess ends with an exit code, having written the file or not
CapProcExit(r, code, wrote) ==
  /\ r \in DOMAIN caps /\ caps[r].pid \in Pids
  /\ proc[caps[r].pid].st = "alive"
  /\ proc' = [proc EXCEPT ![caps[r].pid].st = "exited", ![caps[r].pid].code = code]
  /\ caps' = [caps EXCEPT ![r].file = @ \/ wrote]
  /\ UNCHANGED <<mjpegProcess, mjpegUrl, r6setups, d5setups, releases, svcMjpegProcess,
                 othersOfChain, lastEvent>>

\* a chain that goes on to the standard method whatever the specialized
\* method reported
CapSpecialCloseGoesOn(r) ==
  /\ r \in DOMAIN caps /\ caps[r].pc = "specialRun"
  /\ proc[caps[r].pid].st = "exited"
  /\ SetWorld([World EXCEPT !.proc[caps[r].pid] = FreeProc])
  /\ caps' = [caps EXCEPT ![r] = [@ EXCEPT !.pc = "std", !.pid = Null]]
  /\ UNCHANGED <<othersOfChain, lastEvent>>

\* 'close' of the specialized capture subprocess
CapSpecialClose(r) ==
  /\ r \in DOMAIN caps /\ caps[r].pc = "specialRun"
  /\ proc[caps[r].pid].st = "exited"
  /\ SetWorld([World EXCEPT !.proc[caps[r].pid] = FreeProc])
  /\ caps' = [caps EXCEPT ![r] =
       IF proc[caps[r].pid].code = 0
         THEN ChainEnd(@)
         ELSE [@ EXCEPT !.pc = "std", !.pid = Null]]
  /\ UNCHANGED <<othersOfChain, lastEvent>>

\* captureV4L2Photo from the device check to the settle delay: the capture
\* device is chosen and the stream is stopped
CapStdStop(r, captureDevice) ==
  /\ r \in DOMAIN caps /\ caps[r].pc = "std"
  /\ Room(World)
  /\ SetWorld(stopStream(World))
  /\ caps' = [caps EXCEPT ![r].pc = "stdDelay", ![r].captureDevice = captureDevice]
  /\ lastEvent' = "captureStop"
  /\ UNCHANGED othersOfChain

\* captureV4L2Photo after the settle delay: spawn answers with a running
\* process ("ok"), a process that fails to start ("error") or an exception
\* ("throw": the stream is restarted and the promise rejects, which
\* CameraCaptureService.capturePhoto turns into success: false)
CapStdSpawn(r, outcome) ==
  /\ r \in DOMAIN caps /\ caps[r].pc = "stdDelay"
  /\ Room(World)
  /\ LET c == caps[r]
         W1 == spawn(World, "capture", c.captureDevice, FALSE)
         p == NewPid(World)
     IN CASE outcome = "ok" ->
               /\ SetWorld(W1)
               /\ caps' = [caps EXCEPT ![r].pc = "stdRun", ![r].pid = p]
          [] outcome = "error" ->
               /\ SetWorld([W1 EXCEPT !.proc[p].st = "exited", !.proc[p].code = 1])
               /\ caps' = [caps EXCEPT ![r].pc = "stdRun", ![r].pid = p]
          [] OTHER ->
               /\ SetWorld(startStream(World, c.captureDevice, "canon", "Canon Camera"))
               /\ caps' = [caps EXCEPT ![r] = Settle(Respond(@, 500, FALSE))]
  /\ lastEvent' = "capture"
  /\ UNCHANGED othersOfChain

\* 'close' (or 'error') of the standard capture subprocess: the stream is
\* restarted, then the method reports
CapStdClose(r) ==
  /\ r \in DOMAIN caps /\ caps[r].pc = "stdRun"
  /\ proc[caps[r].pid].st = "exited"
  /\ LET W0 == [World EXCEPT !.proc[caps[r].pid] = FreeProc]
     IN /\ Room(W0)
        /\ SetWorld(startStream(W0, caps[r].captureDevice, "canon", "Canon Camera"))
  /\ caps' = [caps EXCEPT ![r] =
       IF proc[caps[r].pid].code = 0
         THEN ChainEnd(@)
         ELSE [@ EXCEPT !.pc = "fallback", !.pid = Null]]
  /\ lastEvent' = "capture"
  /\ UNCHANGED othersOfChain

\* captureV4L2PhotoFallback from its device search to the spawn
CapFallbackSpawn(r, captureDevice) ==
  /\ r \in DOMAIN caps /\ caps[r].pc = "fallback"
  /\ CanSpawn(World)
  /\ SetWorld(spawn(World, "capture", captureDevice, FALSE))
  /\ caps' = [caps EXCEPT ![r].pc = "fbRun", ![r].pid = NewPid(World),
                          ![r].captureDevice = captureDevice]
  /\ UNCHANGED <<othersOfChain, lastEvent>>

\* useMockImage
useMockImage(c) == [c EXCEPT !.file = @ \/ placeholder]

\* 'close' of the fallback capture subprocess; on failure useMockImage runs
\* and the chain ends
CapFallbackClose(r) ==
  /\ r \in DOMAIN caps /\ caps[r].pc = "fbRun"
  /\ proc[caps[r].pid].st = "exited"
  /\ SetWorld([World EXCEPT !.proc[caps[r].pid] = FreeProc])
  /\ caps' = [caps EXCEPT ![r] =
       IF proc[caps[r].pid].code = 0 THEN ChainEnd(@) ELSE ChainEnd(useMockImage(@))]
  /\ UNCHANGED <<othersOfChain, lastEvent>>

\* processPhoto has answered: on success the controller stops the stream,
\* arms the 500 ms restart timer and answers 200; otherwise it answers 500
CapPost(r, ok) ==
  /\ r \in DOMAIN caps /\ caps[r].pc = "post"
  /\ Room(World)
  /\ IF ok
       THEN /\ SetWorld(stopCameraStream(World))
            /\ caps' = [caps EXCEPT ![r] = Respond(@, 200, TRUE)]
            /\ lastEvent' = "captureStop"
       ELSE /\ caps' = [caps EXCEPT ![r] = Settle(Respond(@, 500, FALSE))]
            /\ UNCHANGED <<streamVars, svcMjpegProcess, lastEvent>>
  /\ UNCHANGED othersOfChain

\* the controller's 500 ms timer: cameraService.startCameraStream()
CapTimer(r) ==
  /\ r \in DOMAIN caps /\ caps[r].timer
  /\ Room(World)
  /\ SetWorld(startCameraStream(World, v4l2Device, cameraType, cameraModel))
  /\ caps' = [caps EXCEPT ![r] = Settle([@ EXCEPT !.timer = FALSE])]
  /\ lastEvent' = "start"
  /\ UNCHANGED othersOfChain

\* 'finish' of the response: cleanupCapture
CapResFinish(r) ==
  /\ r \in DOMAIN caps /\ caps[r].pc = "responded"
  /\ ~caps[r].finish /\ ~caps[r].close
  /\ caps' = [caps EXCEPT ![r].finish = TRUE]
  /\ activeCaptureOperations' = cleanupCapture(activeCaptureOperations)
  /\ UNCHANGED <<lastCaptureAttempt, othersOfCapture>>

\* 'close' of the response (the connection ended, before or after the
\* answer): cleanupCapture
CapResClose(r) ==
  /\ r \in DOMAIN caps /\ caps[r].pc \notin {"none", "done"}
  /\ ~caps[r].close
  /\ caps' = [caps EXCEPT ![r] = Settle([@ EXCEPT !.close = TRUE])]
  /\ activeCaptureOperations' = cleanupCapture(activeCaptureOperations)
  /\ UNCHANGED <<lastCaptureAttempt, othersOfCapture>>

\* the wall clock advances
Tick ==
  /\ now + TickMs <= MaxTime
  /\ now' = now + TickMs
  /\ UNCHANGED <<streamVars, facadeVars, pollVars, captureVars, restartVars, viewerVars, hostVars, lastEvent>>

\* ---------------------------------------------------------------- viewers
\* a viewer request of getMjpegStream. pc: "ondemand" (admitted, waiting for
\* the format checks before its dedicated spawn), "shared" (piped from the
\* facade's handle), "dedicated" (piped from its own subprocess), "orphan"
\* (disconnected during the format checks, handler still running),
\* "finished" (the response has ended on the server side), "ended" (the
\* request's 'end' has fired after that), "gone" (nothing left to happen)
Views == 1..MaxViewers

Watching == {"ondemand", "shared", "dedicated"}

Viewer(pc, status, pid) == [pc |-> pc, status |-> status, pid |-> pid]

\* cleanupConnection
cleanupConnection(n) == IF n - 1 > 0 THEN n - 1 ELSE 0

othersOfViewer == <<now, facadeVars, pollVars, captureVars, restartVars, hostVars, lastEvent>>

\* getMjpegStream up to its first await: the two guards, the counters, the
\* listeners, the device check and the choice between the shared handle and
\* a dedicated subprocess
ViewerRequest ==
  /\ Len(viewers) < MaxViewers
  /\ IF now - lastStreamAttempt < CONNECTION_COOLDOWN_MS
          /\ activeStreamConnections >= BUSY_STREAM_CONNECTIONS
       THEN /\ viewers' = Append(viewers, Viewer("gone", 429, Null))
            /\ UNCHANGED <<activeStreamConnections, lastStreamAttempt>>
       ELSE IF activeStreamConnections >= MAX_STREAM_CONNECTIONS
         THEN /\ viewers' = Append(viewers, Viewer("gone", 503, Null))
              /\ UNCHANGED <<activeStreamConnections, lastStreamAttempt>>
         ELSE /\ lastStreamAttempt' = now
              /\ activeStreamConnections' = activeStreamConnections + 1
              /\ viewers' = Append(viewers,
                   IF v4l2Device = Null THEN Viewer("finished", 503, Null)
                   ELSE IF svcMjpegProcess \in Pids
                     THEN Viewer("shared", 200, svcMjpegProcess)
                     ELSE Viewer("ondemand", 200, Null))
  /\ UNCHANGED <<streamVars, othersOfViewer>>

\* streamDevice of getMjpegStream: for a Canon R6, /dev/video2 when that node
\* exists (video2), else the facade's device (none of the known working
\* nodes /dev/video14, 15, 21, 22 is among Devices)
ViewerStreamDevice(video2) ==
  IF cameraType = "canon" /\ ModelIncludes(cameraModel, "R6") /\ video2
    THEN 2 ELSE v4l2Device

\* getMjpegStream after the two format checks: the dedicated subprocess is
\* spawned and the 'close' listener that kills it is registered
ViewerSpawn(v, video2) ==
  /\ v \in DOMAIN viewers /\ viewers[v].pc \in {"ondemand", "orphan"}
  /\ CanSpawn(World)
  /\ SetWorld(spawn(World, "viewer", ViewerStreamDevice(video2), FALSE))
  /\ viewers' = [viewers EXCEPT ![v] =
       IF @.pc = "ondemand" THEN Viewer("dedicated", 200, NewPid(World))
       ELSE Viewer("gone", 200, Null)]
  /\ UNCHANGED <<activeStreamConnections, lastStreamAttempt, othersOfViewer>>

\* the viewer disconnects: 'close' of the request runs cleanupConnection and
\* the listeners registered so far (unpipe, or the kill of the dedicated
\* subprocess); after a response that ended on the server side, 'close'
\* follows 'end'
ViewerClose(v) ==
  /\ v \in DOMAIN viewers /\ viewers[v].pc \in Watching \cup {"ended"}
  /\ activeStreamConnections' = cleanupConnection(activeStreamConnections)
  /\ proc' = IF viewers[v].pc = "dedicated" THEN kill(proc, viewers[v].pid) ELSE proc
  /\ viewers' = [viewers EXCEPT ![v] =
       IF @.pc = "ondemand" THEN Viewer("orphan", 200, Null)
       ELSE Viewer("gone", @.status, Null)]
  /\ UNCHANGED <<mjpegProcess, mjpegUrl, r6setups, d5setups, releases, lastStreamAttempt,
                 othersOfViewer>>

\* the source of a viewer's response has ended (the piped subprocess is
\* gone), so the response ends on the server side
ViewerSourceEnd(v) ==
  /\ v \in DOMAIN viewers /\ viewers[v].pc \in {"shared", "dedicated"}
  /\ proc[viewers[v].pid].st # "alive"
  /\ viewers' = [viewers EXCEPT ![v] = Viewer("finished", @.status, Null)]
  /\ UNCHANGED <<streamVars, activeStreamConnections, lastStreamAttempt, othersOfViewer>>

\* 'end' of the request, emitted once the response has finished:
\* cleanupConnection
ViewerEnd(v) ==
  /\ v \in DOMAIN viewers /\ viewers[v].pc = "finished"
  /\ activeStreamConnections' = cleanupConnection(activeStreamConnections)
  /\ viewers' = [viewers EXCEPT ![v].pc = "ended"]
  /\ UNCHANGED <<streamVars, lastStreamAttempt, othersOfViewer>>

\* a dedicated subprocess ends by itself
DedicatedExit(p) ==
  /\ proc[p].st = "alive" /\ proc[p].kind = "viewer"
  /\ proc' = [proc EXCEPT ![p].st = "exited", ![p].code = 1]
  /\ UNCHANGED <<mjpegProcess, mjpegUrl, r6setups, d5setups, releases, viewerVars,
                 othersOfViewer>>

\* 'exit' of a dedicated subprocess no response is piped from any more
DedicatedReaped(p) ==
  /\ proc[p].st = "exited" /\ proc[p].kind = "viewer"
  /\ \A v \in DOMAIN viewers : viewers[v].pid # p
  /\ proc' = [proc EXCEPT ![p] = FreeProc]
  /\ UNCHANGED <<mjpegProcess, mjpegUrl, r6setups, d5setups, releases, viewerVars,
                 othersOfViewer>>

\* ---------------------------------------------------------------- restart
\* a restart request: pc is the position of its background job, status the
\* HTTP answer
Jobs == 1..MaxRestarts

RestartPcs == {"kill", "release", "scan", "unload", "settle", "init", "alt"}

othersOfRestart == <<now, pollVars, captureVars, viewerVars, hostVars, lastEvent>>

\* a handler that never finds a restart in progress
RestartBusyNever == FALSE

\* 'if (restartInProgress)' of restartCameraServices
RestartBusy == restartInProgress

\* a handler that forgets the restarts it has recorded
RecentRestartsForgotten == <<>>

\* recentRestarts.filter(time => now - time < RESTART_COOLDOWN_PERIOD)
RecentRestarts == SelectSeq(recentRestarts, LAMBDA t : now - t < RESTART_COOLDOWN_PERIOD)

\* the record of a restart request answered at 'now': status and message of
\* the answer, pc the position of the background job it started (if any)
RestartAnswer(pc, status, message) ==
  [pc |-> pc, status |-> status, message |-> message, at |-> now, sudo |-> FALSE]

\* restartCameraServices up to the call of processRestartInBackground
RestartRequest ==
  /\ Len(restarts) < MaxRestarts
  /\ IF RestartBusy
       THEN /\ restarts' = Append(restarts, RestartAnswer("done", 429, "in progress"))
            /\ UNCHANGED <<restartInProgress, recentRestarts>>
       ELSE IF Len(RecentRestarts) >= MAX_RECENT_RESTARTS
         THEN /\ recentRestarts' = RecentRestarts
              /\ restarts' = Append(restarts, RestartAnswer("done", 429, "too many"))
              /\ UNCHANGED restartInProgress
         ELSE /\ recentRestarts' = Append(RecentRestarts, now)
              /\ restartInProgress' = TRUE
              /\ restarts' = Append(restarts, RestartAnswer("kill", 202, "initiated"))
  /\ UNCHANGED <<streamVars, facadeVars, othersOfRestart>>

\* step 1, terminateProcesses: every ffmpeg process is killed
RestartKill(j) ==
  /\ j \in DOMAIN restarts /\ restarts[j].pc = "kill"
  /\ proc' = KillAllFfmpeg(proc)
  /\ restarts' = [restarts EXCEPT ![j].pc = "release"]
  /\ UNCHANGED <<mjpegProcess, mjpegUrl, r6setups, d5setups, releases, facadeVars,
                 restartInProgress, recentRestarts, othersOfRestart>>

\* step 2, checkAndReleaseBusyDevices: with a busy node, fuser -k kills the
\* processes that hold the video nodes
RestartRelease(j, busy) ==
  /\ j \in DOMAIN restarts /\ restarts[j].pc = "release"
  /\ proc' = IF busy THEN KillAllFfmpeg(proc) ELSE proc
  /\ restarts' = [restarts EXCEPT ![j].pc = "scan"]
  /\ UNCHANGED <<mjpegProcess, mjpegUrl, r6setups, d5setups, releases, facadeVars,
                 restartInProgress, recentRestarts, othersOfRestart>>

\* what the commands of handleKernelModule can do when they are run: all
\* succeed, modprobe -r throws, or the modprobe that loads throws
ModuleOutcomes == {"ok", "unload fails", "load fails"}

\* handleKernelModule: whether the module is loaded afterwards
handleKernelModule(loaded, canUseSudo, outcome) ==
  IF ~loaded THEN loaded
  ELSE IF ~canUseSudo THEN loaded
  ELSE outcome # "load fails"

\* step 3 up to the end of 'sudo fuser -k /dev/video*': the sudo check, the
\* module check and, when the module is loaded and sudo is available, fuser
\* -k, which kills the processes that hold the video nodes; otherwise
\* handleKernelModule returns and the job goes on to the settle delay
RestartFuser(j, canUseSudo) ==
  /\ j \in DOMAIN restarts /\ restarts[j].pc = "scan"
  /\ proc' = IF moduleLoaded /\ canUseSudo THEN KillAllFfmpeg(proc) ELSE proc
  /\ restarts' = [restarts EXCEPT
       ![j].pc = IF moduleLoaded /\ canUseSudo THEN "unload" ELSE "settle",
       ![j].sudo = canUseSudo]
  /\ UNCHANGED <<mjpegProcess, mjpegUrl, r6setups, d5setups, releases, facadeVars,
                 restartInProgress, recentRestarts, othersOfRestart>>

\* steps 3 to 7 from 'sudo modprobe -r v4l2loopback' on: the module is
\* unloaded and loaded again if handleKernelModule got that far, then, after
\* the settle delay and the device scan, the stream is stopped if a camera
\* was connected and the identity is reset
RestartReset(j, canUseSudo, outcome) ==
  /\ j \in DOMAIN restarts /\ restarts[j].pc \in {"unload", "settle"}
  /\ restarts[j].sudo = canUseSudo
  /\ Room(World)
  /\ moduleLoaded' = IF restarts[j].pc = "unload"
                       THEN handleKernelModule(TRUE, canUseSudo, outcome)
                       ELSE moduleLoaded
  /\ SetWorld(IF cameraConnected THEN stopCameraStream(World) ELSE World)
  /\ cameraConnected' = FALSE
  /\ cameraType' = NoType
  /\ cameraModel' = NoModel
  /\ v4l2Device' = Null
  /\ restarts' = [restarts EXCEPT ![j].pc = "init"]
  /\ UNCHANGED <<restartInProgress, recentRestarts, now, svcInit, timerVars, polls,
                 cycleLog, captureVars, viewerVars, detectVars, probeVars, setupVars, lastEvent>>

\* steps 8 and 9: deviceManager.init (which tries to load a missing module)
\* and cameraService.init answer; with a
\* camera the job ends here (finally: restartInProgress = false)
RestartInit(j, res, modprobe) ==
  /\ j \in DOMAIN restarts /\ restarts[j].pc = "init"
  /\ Room(World)
  /\ LET dm == deviceManagerInit(setupStatus, moduleLoaded, depsInstalled, isRoot, modprobe)
     IN /\ moduleLoaded' = dm.moduleLoaded
        /\ setupStatus' = dm.setupStatus
        /\ svcSetupStatus' = InitStatus(res, dm.setupStatus)
  /\ checkCameraAvailability(res)
  /\ cameraConnected' = res.detected
  /\ SetWorld(IF res.detected
                THEN startCameraStream(World, res.device, res.type, res.model)
                ELSE World)
  /\ startReconnectionTimer(TRUE)
  /\ restarts' = [restarts EXCEPT ![j].pc = IF res.detected THEN "done" ELSE "alt"]
  /\ restartInProgress' = IF res.detected THEN FALSE ELSE restartInProgress
  /\ UNCHANGED <<recentRestarts, now, svcInit, polls, cycleLog, captureVars, viewerVars,
                 detectVars, probeVars, isRoot, depsInstalled, lastEvent>>

\* step 10, tryAlternativeDevices: tried is the last node tried (Null with no
\* video node at all), exists whether verifyDeviceExists accepted it, mode
\* the family that verifyDevice's detectCanonR6 reports for it (a capture
\* node below /dev/video2 is standard; the introspection of a higher node is
\* taken to answer within the step); then the job ends (finally:
\* restartInProgress = false)
RestartAlt(j, tried, exists, mode) ==
  /\ j \in DOMAIN restarts /\ restarts[j].pc = "alt"
  /\ Room(World)
  /\ mode # "none" => tried # Null /\ exists
  /\ tried = 1 => mode \in {"none", "standard"}
  /\ setCameraMode(mode)
  /\ v4l2Device' = IF tried = Null THEN v4l2Device ELSE tried
  /\ IF tried # Null /\ exists
       THEN /\ cameraType' = "canon"
            /\ cameraModel' = "Canon Camera (manual restart)"
            /\ cameraConnected' = TRUE
            /\ SetWorld(startCameraStream(World, tried, "canon",
                                          "Canon Camera (manual restart)"))
       ELSE UNCHANGED <<cameraType, cameraModel, cameraConnected, streamVars, svcMjpegProcess>>
  /\ restarts' = [restarts EXCEPT ![j].pc = "done"]
  /\ restartInProgress' = FALSE
  /\ UNCHANGED <<recentRestarts, now, svcInit, polls, cycleLog, captureVars, viewerVars, hostVars,
                 lastEvent>>

\* a job whose failure is caught but whose guard is not reset
RestartFailKeepsGuard(j) ==
  /\ j \in DOMAIN restarts /\ restarts[j].pc \in {"scan", "unload", "settle", "alt"}
  /\ restarts' = [restarts EXCEPT ![j].pc = "done"]
  /\ UNCHANGED <<restartInProgress, recentRestarts, streamVars, facadeVars, othersOfRestart>>

\* a step of the job throws (the sudo check, the module check, the device
\* scan, the search for alternatives): catch, then finally
RestartFail(j) ==
  /\ j \in DOMAIN restarts /\ restarts[j].pc \in {"scan", "unload", "settle", "alt"}
  /\ restarts' = [restarts EXCEPT ![j].pc = "done"]
  /\ restartInProgress' = FALSE
  /\ UNCHANGED <<recentRestarts, streamVars, facadeVars, othersOfRestart>>

\* --------------------------------------------------------------- detection
\* the video nodes a detection cycle can be shown
Nodes == {1, 2}

\* the orders in which readdirSync('/dev') can list them
NodeLists == {<<>>, <<1>>, <<2>>, <<1, 2>>, <<2, 1>>}

\* what a detection cycle sees outside the program: list is how
\* 'v4l2-ctl --list-devices' ends ("ok" or "fails"), canon the node it names
\* under a Canon entry (Null for none), nodes the video nodes in the order
\* readdirSync returns them, loopback the nodes whose 'v4l2-ctl --all' output
\* mentions a loopback device, webcam whether the listing has one of the
\* webcam words, lsusb whether lsusb names a webcam
Inputs ==
  [list : {"ok", "fails"}, canon : {Null, 1}, nodes : NodeLists,
   loopback : SUBSET Nodes, webcam : BOOLEAN, lsusb : BOOLEAN]

\* no cycle has run yet
NoInput ==
  [list |-> "none", canon |-> Null, nodes |-> <<>>, loopback |-> {},
   webcam |-> FALSE, lsusb |-> FALSE]

\* the loop of checkV4l2LoopbackDevices from position i of the listing: the
\* node found (Null for none) and the nodes remembered as checked
RECURSIVE LoopbackScan(_, _, _, _)
LoopbackScan(nodes, loopback, checked, i) ==
  IF i > Len(nodes) THEN [device |-> Null, checked |-> checked]
  ELSE IF nodes[i] \in checked THEN LoopbackScan(nodes, loopback, checked, i + 1)
  ELSE IF nodes[i] \in loopback
    THEN [device |-> nodes[i], checked |-> checked \cup {nodes[i]}]
  ELSE LoopbackScan(nodes, loopback, checked \cup {nodes[i]}, i + 1)

\* CameraDetectionService.checkV4l2LoopbackDevices (DEBUG_MODE unset)
checkV4l2LoopbackDevices(in, checked) ==
  LET scan == LoopbackScan(in.nodes, in.loopback, checked, 1)
  IN [result |-> IF scan.device = Null THEN NoCamera
                 ELSE [detected |-> TRUE, device |-> scan.device, type |-> "canon",
                       model |-> "Canon Camera (v4l2loopback)"],
      checked |-> scan.checked]

\* CameraDetectionService.detectCanonCamera on Linux
detectCanonCamera(in, checked) ==
  IF in.list = "fails" THEN [result |-> NoCamera, checked |-> checked]
  ELSE IF in.canon # Null
    THEN [result |-> [detected |-> TRUE, device |-> in.canon, type |-> "canon",
                      model |-> "Canon Camera (v4l2 mode)"],
          checked |-> checked]
  ELSE IF in.nodes # <<>> THEN checkV4l2LoopbackDevices(in, checked)
  ELSE [result |-> NoCamera, checked |-> checked]

\* CameraDetectionService.detectWebcam on Linux; the model is the default one
detectWebcam(in) ==
  IF in.nodes = <<>> THEN NoCamera
  ELSE IF (in.list = "ok" /\ in.webcam) \/ in.lsusb
    THEN [detected |-> TRUE, device |-> in.nodes[1], type |-> "webcam",
          model |-> "USB Webcam"]
  ELSE NoCamera

\* CameraDetectionService.detectCamera: the result and the nodes remembered
detectCamera(in, checked) ==
  LET canonCamera == detectCanonCamera(in, checked)
  IN IF canonCamera.result.detected THEN canonCamera
     ELSE [result |-> detectWebcam(in), checked |-> canonCamera.checked]

\* one detection cycle with the outside world as in
DetectCycle(in) ==
  /\ LET cycle == detectCamera(in, checkedDevices)
     IN /\ detResult' = cycle.result
        /\ checkedDevices' = cycle.checked
  /\ detInput' = in
  /\ UNCHANGED <<now, streamVars, facadeVars, pollVars, captureVars, restartVars,
                 viewerVars, moduleLoaded, probeVars, setupVars, lastEvent>>

\* ------------------------------------------------------------ verification
\* what a verifyDevice call sees outside the program: the platform, whether
\* the path exists, what statSync says of it ("char" for a character device,
\* "other", or "throws"), how spawning v4l2-ctl goes ("ok", an 'error' event,
\* or spawn throws), its exit code, whether its stderr has 'failed' or
\* 'error', whether its output names the capture and the output capability,
\* and the family detectCanonR6 reports for the node
Probes ==
  [platform : {"linux", "darwin"}, exists : BOOLEAN, stat : {"char", "other", "throws"},
   spawn : {"ok", "error", "throws"}, code : {0, 1}, stderr : BOOLEAN,
   isCapture : BOOLEAN, isOutput : BOOLEAN, mode : Modes]

\* no call has been made yet
NoProbe ==
  [platform |-> "none", exists |-> FALSE, stat |-> "other", spawn |-> "ok",
   code |-> 0, stderr |-> FALSE, isCapture |-> FALSE, isOutput |-> FALSE,
   mode |-> "none"]

\* the call reaches detectCanonR6: the node answered with a video capability
Introspected(in) ==
  /\ in.platform = "linux"
  /\ in.exists /\ in.stat = "char" /\ in.spawn = "ok"
  /\ in.code = 0 /\ ~in.stderr
  /\ in.isCapture \/ in.isOutput

\* DeviceManagerService.verifyDevice: what the promise resolves to, and
\* whether the call throws or the promise rejects
verifyDevice(in) ==
  IF in.platform # "linux" THEN [returns |-> TRUE, throws |-> FALSE]
  ELSE IF ~in.exists THEN [returns |-> FALSE, throws |-> FALSE]
  ELSE IF in.stat # "char" THEN [returns |-> FALSE, throws |-> FALSE]
  ELSE IF in.spawn # "ok" THEN [returns |-> FALSE, throws |-> FALSE]
  ELSE [returns |-> Introspected(in), throws |-> FALSE]

\* one call of verifyDevice with the outside world as in; a node that
\* answers is handed to detectCanonR6, which sets the camera mode (without a
\* capture capability only the R6 patterns do)
VerifyCall(in) ==
  /\ in.mode # "none" => Introspected(in)
  /\ (in.mode \in {"5d", "standard"}) => in.isCapture
  /\ verInput' = in
  /\ verResult' = verifyDevice(in)
  /\ setCameraMode(in.mode)
  /\ UNCHANGED <<now, streamVars, facadeVars, svcInit, polls, cycleLog, captureVars,
                 restartVars, viewerVars, moduleLoaded, detectVars, setupVars, selInput,
                 selResult, photos, lastEvent>>

\* ---------------------------------------------------------------- selection
\* the video nodes a scan can list: /dev/video1, 2, 3, 10 and 21
SelNodes == {1, 2, 3, 10, 21}

\* what a selection sees: the device path the facade is bound to, the
\* capture-capable nodes in the order of the directory listing, and the node
\* among them whose introspection names the Canon 5D (Null if none)
Scans ==
  {[devicePath |-> d, listed |-> l, marked |-> k] :
     d \in Devices,
     l \in {q \in UNION {[1..n -> SelNodes] : n \in 0..MaxListed} :
              \A i, j \in DOMAIN q : i # j => q[i] # q[j]},
     k \in SelNodes \cup {Null}}

\* no selection has been made yet
NoScan == [devicePath |-> Null, listed |-> <<>>, marked |-> Null]

\* one scan of the video nodes, and the node each rule chooses for it: the 5D
\* capture and stream set-up, the R6 capture method, the R6 stream set-up
\* (without a capture-capable node the R6 rules choose nothing)
SelectCall(in) ==
  /\ in.marked \in Range(in.listed) \cup {Null}
  /\ selInput' = in
  /\ selResult' =
       [mk5d |-> Mk5dCaptureDevice(in.devicePath, in.listed, in.marked),
        r6capture |-> IF in.listed = <<>> THEN Null ELSE R6CaptureDevice(in.listed),
        r6stream |-> IF in.listed = <<>> THEN Null ELSE R6StreamDevice(Range(in.listed))]
  /\ UNCHANGED <<now, streamVars, facadeVars, pollVars, captureVars, restartVars,
                 viewerVars, moduleLoaded, detectVars, setupVars, verInput, verResult,
                 photos, lastEvent>>

\* ------------------------------------------------------------- processPhoto
\* a processPhoto call. pc: "idle", "watermark" (awaiting addWatermark),
\* "read" (awaiting the image buffer), "upload" (awaiting the PutObject),
\* "sign" (awaiting the signed URL), "done". localFile: the captured file is
\* on disk; publicCopy: "none", "present", "deleted"; uploaded: the PutObject
\* succeeded; result: the descriptor returned, "cloud" (awsStatus
\* 'available') or "local" (awsStatus 'unavailable'), "throws" if it rejected
NoPhoto ==
  [pc |-> "idle", localFile |-> FALSE, publicCopy |-> "none", uploaded |-> FALSE,
   result |-> "none"]

\* processPhotoLocally: builds the local descriptor and touches no file
processPhotoLocally(p) == [p EXCEPT !.pc = "done", !.result = "local"]

\* processPhoto is called for a captured file and awaits the watermark
PhotoBegin(i) ==
  /\ photos[i].pc = "idle"
  /\ photos' = [photos EXCEPT ![i] = [NoPhoto EXCEPT !.pc = "watermark", !.localFile = TRUE]]
  /\ UNCHANGED <<now, streamVars, facadeVars, pollVars, captureVars, restartVars,
                 viewerVars, moduleLoaded, detectVars, setupVars, verInput, verResult,
                 selInput, selResult, lastEvent>>

\* the watermark ended (its failure is caught and ignored); the public copy is
\* made, and a failure of it is caught and answered with the local
\* descriptor; then processPhotoLocally, or processPhotoForAWS, which without
\* credentials or bucket name answers locally, up to its first await
PhotoCopy(i, copied, awsAvailable, configured) ==
  /\ photos[i].pc = "watermark"
  /\ photos' = [photos EXCEPT ![i] =
       IF ~copied THEN processPhotoLocally(@)
       ELSE IF awsAvailable /\ configured
         THEN [@ EXCEPT !.publicCopy = "present", !.pc = "read"]
       ELSE processPhotoLocally([@ EXCEPT !.publicCopy = "present"])]
  /\ UNCHANGED <<now, streamVars, facadeVars, pollVars, captureVars, restartVars,
                 viewerVars, moduleLoaded, detectVars, setupVars, verInput, verResult,
                 selInput, selResult, lastEvent>>

\* the image buffer: upscaled, or read from the file when that fails; without
\* a buffer the AWS path falls back to the local descriptor
PhotoRead(i, readable) ==
  /\ photos[i].pc = "read"
  /\ photos' = [photos EXCEPT ![i] =
       IF readable THEN [@ EXCEPT !.pc = "upload"] ELSE processPhotoLocally(@)]
  /\ UNCHANGED <<now, streamVars, facadeVars, pollVars, captureVars, restartVars,
                 viewerVars, moduleLoaded, detectVars, setupVars, verInput, verResult,
                 selInput, selResult, lastEvent>>

\* an upload step that removes the local files whatever the PutObject answers
PhotoUploadDeleting(i, outcome) ==
  /\ photos[i].pc = "upload"
  /\ photos' = [photos EXCEPT ![i] =
       IF outcome = "ok"
         THEN [@ EXCEPT !.uploaded = TRUE, !.pc = "sign"]
         ELSE processPhotoLocally([@ EXCEPT !.localFile = FALSE, !.publicCopy = "deleted"])]
  /\ UNCHANGED <<now, streamVars, facadeVars, pollVars, captureVars, restartVars,
                 viewerVars, moduleLoaded, detectVars, setupVars, verInput, verResult,
                 selInput, selResult, lastEvent>>

\* the PutObject answers: on failure the local descriptor
PhotoUpload(i, outcome) ==
  /\ photos[i].pc = "upload"
  /\ photos' = [photos EXCEPT ![i] =
       IF outcome = "ok"
         THEN [@ EXCEPT !.uploaded = TRUE, !.pc = "sign"]
         ELSE processPhotoLocally(@)]
  /\ UNCHANGED <<now, streamVars, facadeVars, pollVars, captureVars, restartVars,
                 viewerVars, moduleLoaded, detectVars, setupVars, verInput, verResult,
                 selInput, selResult, lastEvent>>

\* getSignedUrl answers: on failure the local descriptor; otherwise the
\* captured file and then the public copy are unlinked (unlinked says how far
\* that got before an error, which is caught) and the cloud descriptor returned
PhotoSign(i, outcome, unlinked) ==
  /\ photos[i].pc = "sign"
  /\ photos' = [photos EXCEPT ![i] =
       IF outcome = "ok"
         THEN [@ EXCEPT !.localFile = (unlinked = "none"),
                        !.publicCopy = IF unlinked = "both" THEN "deleted" ELSE @,
                        !.pc = "done", !.result = "cloud"]
         ELSE processPhotoLocally(@)]
  /\ UNCHANGED <<now, streamVars, facadeVars, pollVars, captureVars, restartVars,
                 viewerVars, moduleLoaded, detectVars, setupVars, verInput, verResult,
                 selInput, selResult, lastEvent>>

\* ----------------------------------------------------------------- initial
Init ==
  /\ now = StartTime
  /\ proc = [p \in Pids |-> FreeProc]
  /\ mjpegProcess = Null
  /\ mjpegUrl = NoUrl
  /\ r6setups = [release |-> 0, scan |-> 0]
  /\ d5setups = <<>>
  /\ releases = 0
  /\ cameraConnected = FALSE
  /\ cameraType = NoType
  /\ cameraModel = NoModel
  /\ v4l2Device = Null
  /\ svcMjpegProcess = Null
  /\ svcInit = "new"
  /\ timerArmed = FALSE
  /\ intervals = <<>>
  /\ reconnectionInterval = StandardReconnectionInterval
  /\ unhandled = FALSE
  /\ moduleLoaded = FALSE
  /\ isRoot \in BOOLEAN
  /\ depsInstalled \in BOOLEAN
  /\ setupStatus = NoStatus
  /\ svcSetupStatus = NoStatus
  /\ verInput = NoProbe
  /\ verResult = [returns |-> FALSE, throws |-> FALSE]
  /\ selInput = NoScan
  /\ photos = [i \in 1..MaxPhotos |-> NoPhoto]
  /\ selResult = [mk5d |-> Null, r6capture |-> Null, r6stream |-> Null]
  /\ checkedDevices = {}
  /\ detInput = NoInput
  /\ detResult = NoCamera
  /\ polls = <<>>
  /\ cycleLog = <<>>
  /\ lastEvent = "none"
  /\ activeCaptureOperations = 0
  /\ lastCaptureAttempt = 0
  /\ caps = <<>>
  /\ placeholder \in BOOLEAN
  /\ restartInProgress = FALSE
  /\ recentRestarts = <<>>
  /\ restarts = <<>>
  /\ activeStreamConnections = 0
  /\ lastStreamAttempt = 0
  /\ viewers = <<>>

\* the state after construction of a server that does not run as root, on a
\* host with the dependencies installed
InitPlain == Init /\ ~isRoot /\ depsInstalled

\* the same on a server that has the placeholder asset
InitWithAsset == InitPlain /\ placeholder

\* the state after construction on any host, with the placeholder asset
InitAnyHost == Init /\ placeholder

\* the administrator installs the missing packages
InstallDependencies ==
  /\ ~depsInstalled
  /\ depsInstalled' = TRUE
  /\ UNCHANGED <<now, streamVars, facadeVars, pollVars, captureVars, restartVars,
                 viewerVars, moduleLoaded, detectVars, probeVars, isRoot, setupStatus,
                 svcSetupStatus, lastEvent>>

\* the administrator loads the module from a shell
LoadModuleOutside ==
  /\ ~moduleLoaded
  /\ moduleLoaded' = TRUE
  /\ UNCHANGED <<now, streamVars, facadeVars, pollVars, captureVars, restartVars,
                 viewerVars, detectVars, probeVars, setupVars, lastEvent>>

\* the asynchronous steps and subprocess events of the stream service
StreamEvents ==
  \/ ReleaseDevicesKill
  \/ R6Release
  \/ \E cd \in SUBSET Devices : R6Spawn(cd)
  \/ \E d \in Devices : D5Spawn(d)
  \/ \E p \in Pids : StreamExit(p)
  \/ \E p \in Pids : StreamClose(p)
  \/ \E p \in Pids : Watchdog(p)

\* the stream service called directly, in any order
NextStream ==
  \/ \E d \in Devices, t \in Types, m \in Models : StartStream(d, t, m)
  \/ StopStream
  \/ StreamEvents

SpecStream == InitPlain /\ [][NextStream]_vars

\* the stream service called directly, in any order, for a camera on
\* /dev/video1 of any type and model, so that the standard, the R6 and the
\* 5D path are all taken
NextHandle ==
  \/ \E t \in Types, m \in Models : StartStream(1, t, m)
  \/ StopStream
  \/ ReleaseDevicesKill
  \/ R6Release
  \/ \E cd \in SUBSET {1} : R6Spawn(cd)
  \/ D5Spawn(1)
  \/ \E p \in Pids : StreamExit(p)
  \/ \E p \in Pids : StreamClose(p)
  \/ \E p \in Pids : Watchdog(p)

SpecHandle == InitWithAsset /\ [][NextHandle]_vars

\* a start of the stream for a camera that takes the synchronous path or the
\* 5D path (no R6 setup in the background)
DirectStartStream(devicePath, cType, cModel) ==
  /\ ~IsR6(devicePath, cType, cModel)
  /\ StartStream(devicePath, cType, cModel)

\* starts and stops of the stream service called directly, in any order,
\* for a camera on /dev/video1, with the events of the subprocesses they
\* leave behind
NextStartStop ==
  \/ \E t \in Types, m \in Models : DirectStartStream(1, t, m)
  \/ StopStream
  \/ ReleaseDevicesKill
  \/ D5Spawn(1)
  \/ \E p \in Pids : StreamExit(p)
  \/ \E p \in Pids : StreamClose(p)
  \/ \E p \in Pids : Watchdog(p)

SpecStartStop == InitWithAsset /\ [][NextStartStop]_vars

\* the first capture request against the initialised facade, its chain and
\* the stream service's asynchronous steps
SoleCaptureRequest == caps = <<>> /\ CaptureRequest

NextCapture ==
  \/ InitBegin("ok")
  \/ \E res \in Detections : InitEnd(res)
  \/ SoleCaptureRequest
  \/ \E r \in Reqs : CapStart(r)
  \/ \E r \in Reqs, cd \in SUBSET Devices, m \in Devices \cup {Null} : CapSpecialSpawn(r, cd, m)
  \/ \E r \in Reqs, code \in {0, 1}, wrote \in BOOLEAN : CapProcExit(r, code, wrote)
  \/ \E r \in Reqs : CapSpecialClose(r)
  \/ \E r \in Reqs, d \in Devices : CapStdStop(r, d)
  \/ \E r \in Reqs, o \in {"ok", "error", "throw"} : CapStdSpawn(r, o)
  \/ \E r \in Reqs : CapStdClose(r)
  \/ \E r \in Reqs, d \in Devices : CapFallbackSpawn(r, d)
  \/ \E r \in Reqs : CapFallbackClose(r)
  \/ \E r \in Reqs, ok \in BOOLEAN : CapPost(r, ok)
  \/ \E r \in Reqs : CapTimer(r)
  \/ \E r \in Reqs : CapResFinish(r)
  \/ \E r \in Reqs : CapResClose(r)
  \/ ReleaseDevicesKill
  \/ R6Release
  \/ \E cd \in SUBSET Devices : R6Spawn(cd)
  \/ \E p \in Pids : StreamClose(p)

SpecCapture == InitPlain /\ [][NextCapture]_vars

\* one of the first MaxTimerJobs restart requests
FirstRestartRequest == Len(restarts) < MaxTimerJobs /\ RestartRequest

\* what detectCamera reports while the camera stays as the facade knows it
Unchanged ==
  IF cameraConnected
    THEN [detected |-> TRUE, device |-> v4l2Device, type |-> cameraType,
          model |-> cameraModel]
    ELSE NoCamera

\* the reconnection timer with its ticks: start-up, restart jobs that
\* initialise the service again and verify alternative nodes, and the ticks
\* of the timer; the camera, when detection finds one, is a webcam, and it
\* does not change between the ticks
NextMode ==
  \/ InitBegin("ok")
  \/ \E res \in WebcamDetections : InitEnd(res)
  \/ FirstRestartRequest
  \/ \E j \in Jobs : RestartKill(j)
  \/ \E j \in Jobs, busy \in BOOLEAN : RestartRelease(j, busy)
  \/ \E j \in Jobs : RestartFuser(j, FALSE)
  \/ \E j \in Jobs : RestartReset(j, FALSE, "ok")
  \/ \E j \in Jobs, res \in WebcamDetections : RestartInit(j, res, "ok")
  \/ \E j \in Jobs, tried \in Devices \cup {Null}, exists \in BOOLEAN, mode \in Modes :
       RestartAlt(j, tried, exists, mode)
  \/ \E j \in Jobs : RestartFail(j)
  \/ PollBegin
  \/ PollEnd(Unchanged)
  \/ PollThrow
  \/ ReleaseDevicesKill
  \/ \E p \in Pids : StreamClose(p)

SpecMode == InitWithAsset /\ [][NextMode]_vars

\* the arming of the reconnection timer: start-up and restart jobs that
\* initialise the service again and verify alternative nodes; MaxTimerJobs
\* restart requests are enough to initialise the service again after a job
\* has re-armed the timer
NextTimer ==
  \/ InitBegin("ok")
  \/ \E res \in WebcamDetections : InitEnd(res)
  \/ FirstRestartRequest
  \/ \E j \in Jobs : RestartKill(j)
  \/ \E j \in Jobs, busy \in BOOLEAN : RestartRelease(j, busy)
  \/ \E j \in Jobs : RestartFuser(j, FALSE)
  \/ \E j \in Jobs : RestartReset(j, FALSE, "ok")
  \/ \E j \in Jobs, res \in WebcamDetections : RestartInit(j, res, "ok")
  \/ \E j \in Jobs, tried \in Devices \cup {Null}, exists \in BOOLEAN, mode \in Modes :
       RestartAlt(j, tried, exists, mode)
  \/ \E j \in Jobs : RestartFail(j)
  \/ PollThrow
  \/ ReleaseDevicesKill
  \/ \E p \in Pids : StreamClose(p)

SpecTimer == InitWithAsset /\ [][NextTimer]_vars

\* detection cycles, each shown any outside world
NextDetect == \E in \in Inputs : DetectCycle(in)

SpecDetect == InitWithAsset /\ [][NextDetect]_vars

\* restart jobs on a host where the server may have sudo and may run as
\* root, and where the commands of the module reload work when they are
\* run; detection finds no camera or a webcam on /dev/video1
NextModule ==
  \/ RestartRequest
  \/ \E j \in Jobs : RestartKill(j)
  \/ \E j \in Jobs, busy \in BOOLEAN : RestartRelease(j, busy)
  \/ \E j \in Jobs, canUseSudo \in BOOLEAN : RestartFuser(j, canUseSudo)
  \/ \E j \in Jobs, canUseSudo \in BOOLEAN : RestartReset(j, canUseSudo, "ok")
  \/ \E j \in Jobs, res \in WebcamDetections, modprobe \in ModprobeOutcomes :
       (res.detected => res.device = 1) /\ RestartInit(j, res, modprobe)
  \/ \E j \in Jobs : RestartAlt(j, Null, FALSE, "none")
  \/ \E j \in Jobs : RestartFail(j)
  \/ ReleaseDevicesKill
  \/ \E p \in Pids : StreamClose(p)

SpecModule == InitAnyHost /\ [][NextModule]_vars

\* a restart job on a started facade whose reconnection poll keeps ticking,
\* on a host where the server may run as root and may have sudo; detection
\* finds no camera or a webcam on /dev/video1
NextUnload ==
  \/ InitBegin("ok")
  \/ \E res \in WebcamDetections : (res.detected => res.device = 1) /\ InitEnd(res)
  \/ FirstRestartRequest
  \/ \E j \in Jobs : RestartKill(j)
  \/ \E j \in Jobs, busy \in BOOLEAN : RestartRelease(j, busy)
  \/ \E j \in Jobs, canUseSudo \in BOOLEAN : RestartFuser(j, canUseSudo)
  \/ \E j \in Jobs, canUseSudo \in BOOLEAN : RestartReset(j, canUseSudo, "ok")
  \/ \E j \in Jobs, res \in WebcamDetections :
       (res.detected => res.device = 1) /\ RestartInit(j, res, "ok")
  \/ \E j \in Jobs : RestartAlt(j, Null, FALSE, "none")
  \/ \E j \in Jobs : RestartFail(j)
  \/ PollBegin
  \/ \E res \in WebcamDetections : (res.detected => res.device = 1) /\ PollEnd(res)
  \/ ReleaseDevicesKill
  \/ \E p \in Pids : StreamClose(p)

SpecUnload == InitAnyHost /\ [][NextUnload]_vars

\* initialisation at start-up and again in restart jobs, on any host, while
\* the administrator may install the dependencies and load the module;
\* detection finds no camera or a webcam on /dev/video1
NextSetup ==
  \/ \E modprobe \in ModprobeOutcomes : InitBegin(modprobe)
  \/ \E res \in WebcamDetections : (res.detected => res.device = 1) /\ InitEnd(res)
  \/ FirstRestartRequest
  \/ \E j \in Jobs : RestartKill(j)
  \/ \E j \in Jobs, busy \in BOOLEAN : RestartRelease(j, busy)
  \/ \E j \in Jobs, canUseSudo \in BOOLEAN : RestartFuser(j, canUseSudo)
  \/ \E j \in Jobs, canUseSudo \in BOOLEAN : RestartReset(j, canUseSudo, "ok")
  \/ \E j \in Jobs, res \in WebcamDetections, modprobe \in ModprobeOutcomes :
       (res.detected => res.device = 1) /\ RestartInit(j, res, modprobe)
  \/ \E j \in Jobs : RestartAlt(j, Null, FALSE, "none")
  \/ \E j \in Jobs : RestartFail(j)
  \/ InstallDependencies
  \/ LoadModuleOutside
  \/ ReleaseDevicesKill
  \/ \E p \in Pids : StreamClose(p)

SpecSetup == InitAnyHost /\ [][NextSetup]_vars

\* the steps of the background job of restart request j, with any outcome of
\* the commands it runs; the camera, when one answers, is a webcam
JobStep(j) ==
  \/ RestartKill(j)
  \/ \E busy \in BOOLEAN : RestartRelease(j, busy)
  \/ \E canUseSudo \in BOOLEAN : RestartFuser(j, canUseSudo)
  \/ \E canUseSudo \in BOOLEAN, outcome \in ModuleOutcomes : RestartReset(j, canUseSudo, outcome)
  \/ \E res \in WebcamDetections : (res.detected => res.device = 1) /\ RestartInit(j, res, "ok")
  \/ \E tried \in {Null, 1}, exists \in BOOLEAN, mode \in {"none", "standard"} :
       RestartAlt(j, tried, exists, mode)
  \/ RestartFail(j)

\* restart requests and their background jobs
NextJobs ==
  \/ FirstRestartRequest
  \/ \E j \in 1..MaxTimerJobs : JobStep(j)
  \/ ReleaseDevicesKill
  \/ \E p \in Pids : StreamClose(p)

\* every command and timer a job awaits answers, and the event loop delivers
\* every answer, every 'close' event and every detached releaseDevices
SpecJobs ==
  /\ InitPlain
  /\ [][NextJobs]_vars
  /\ \A j \in 1..MaxTimerJobs : WF_vars(JobStep(j))
  /\ WF_vars(ReleaseDevicesKill)
  /\ WF_vars(\E p \in Pids : StreamClose(p))

\* processPhoto calls, each step with any outcome
NextPhoto ==
  \E i \in 1..MaxPhotos :
    \/ PhotoBegin(i)
    \/ \E copied, awsAvailable, configured \in BOOLEAN :
         PhotoCopy(i, copied, awsAvailable, configured)
    \/ \E readable \in BOOLEAN : PhotoRead(i, readable)
    \/ \E outcome \in {"ok", "fail"} : PhotoUpload(i, outcome)
    \/ \E outcome \in {"ok", "fail"}, unlinked \in {"none", "local", "both"} :
         PhotoSign(i, outcome, unlinked)

SpecPhoto == InitWithAsset /\ [][NextPhoto]_vars

\* device selections, each shown any scan
NextSelect == \E in \in Scans : SelectCall(in)

SpecSelect == InitWithAsset /\ [][NextSelect]_vars

\* calls of verifyDevice, each shown any outside world
NextVerify == \E in \in Probes : VerifyCall(in)

SpecVerify == InitWithAsset /\ [][NextVerify]_vars

\* capture requests of a webcam on /dev/video1 that the standard method
\* serves, with the wall clock advancing, for the capture cooldown
NextCooldown ==
  \/ InitBegin("ok")
  \/ \E res \in WebcamDetections : InitEnd(res)
  \/ Tick
  \/ CaptureRequest
  \/ \E r \in Reqs : CapStart(r)
  \/ \E r \in Reqs : CapStdStop(r, caps[r].dev)
  \/ \E r \in Reqs : CapStdSpawn(r, "ok")
  \/ \E r \in Reqs : CapProcExit(r, 0, TRUE)
  \/ \E r \in Reqs : CapStdClose(r)
  \/ \E r \in Reqs : CapPost(r, TRUE)
  \/ \E r \in Reqs : CapTimer(r)
  \/ \E r \in Reqs : CapResFinish(r)
  \/ \E r \in Reqs : CapResClose(r)
  \/ ReleaseDevicesKill
  \/ \E p \in Pids : StreamClose(p)

SpecCooldown == InitWithAsset /\ [][NextCooldown]_vars

\* the admission guard of the capture controller: requests, the clock and the
\* events of the responses
NextGuard ==
  \/ InitBegin("ok")
  \/ \E res \in Detections : InitEnd(res)
  \/ Tick
  \/ CaptureRequest
  \/ \E r \in Reqs : CapStart(r)
  \/ \E r \in Reqs : CapResFinish(r)
  \/ \E r \in Reqs : CapResClose(r)

SpecGuard == InitPlain /\ [][NextGuard]_vars

\* restart requests against the facade, their background jobs and the
\* stream service's asynchronous steps
NextRestart ==
  \/ RestartRequest
  \/ \E j \in Jobs : RestartKill(j)
  \/ \E j \in Jobs, busy \in BOOLEAN : RestartRelease(j, busy)
  \/ \E j \in Jobs : RestartFuser(j, FALSE)
  \/ \E j \in Jobs : RestartReset(j, FALSE, "ok")
  \/ \E j \in Jobs, res \in Detections : RestartInit(j, res, "ok")
  \/ \E j \in Jobs, tried \in Devices \cup {Null}, exists \in BOOLEAN, mode \in Modes :
       RestartAlt(j, tried, exists, mode)
  \/ \E j \in Jobs : RestartFail(j)
  \/ ReleaseDevicesKill
  \/ R6Release
  \/ \E cd \in SUBSET {1, 2} : R6Spawn(cd)
  \/ \E p \in Pids : StreamClose(p)

SpecRestart == InitPlain /\ [][NextRestart]_vars

\* restart requests with the wall clock advancing, for the restart rate
\* limit; the camera, when one answers, is a webcam (no specialized setup)
NextRestartLimit ==
  \/ Tick
  \/ RestartRequest
  \/ \E j \in Jobs : RestartKill(j)
  \/ \E j \in Jobs, busy \in BOOLEAN : RestartRelease(j, busy)
  \/ \E j \in Jobs : RestartFuser(j, FALSE)
  \/ \E j \in Jobs : RestartReset(j, FALSE, "ok")
  \/ \E j \in Jobs, res \in WebcamDetections : RestartInit(j, res, "ok")
  \/ \E j \in Jobs, exists \in BOOLEAN : RestartAlt(j, Null, exists, "none")
  \/ \E j \in Jobs : RestartFail(j)
  \/ ReleaseDevicesKill
  \/ \E p \in Pids : StreamClose(p)

SpecRestartLimit == InitWithAsset /\ [][NextRestartLimit]_vars

\* preview viewers of the shared stream of a webcam: admission, the clock
\* and the events of the requests
NextViewers ==
  \/ InitBegin("ok")
  \/ \E res \in WebcamDetections : InitEnd(res)
  \/ Tick
  \/ ViewerRequest
  \/ \E v \in Views : ViewerClose(v)
  \/ \E v \in Views : ViewerEnd(v)

SpecViewers == InitWithAsset /\ [][NextViewers]_vars

\* the first viewers of a camera of any kind, with the dedicated
\* subprocesses of those that find no shared handle
EarlyViewerRequest == Len(viewers) < BUSY_STREAM_CONNECTIONS /\ ViewerRequest

NextDedicated ==
  \/ InitBegin("ok")
  \/ \E res \in Detections : InitEnd(res)
  \/ EarlyViewerRequest
  \/ \E v \in Views, video2 \in BOOLEAN : ViewerSpawn(v, video2)
  \/ \E v \in Views : ViewerClose(v)
  \/ \E v \in Views : ViewerSourceEnd(v)
  \/ \E v \in Views : ViewerEnd(v)
  \/ \E p \in Pids : DedicatedExit(p)
  \/ \E p \in Pids : DedicatedReaped(p)
  \/ R6Release
  \/ \E cd \in SUBSET Devices : R6Spawn(cd)

SpecDedicated == InitWithAsset /\ [][NextDedicated]_vars

\* the facade: init, then the reconnection poll, cycle after cycle
NextPoll ==
  \/ InitBegin("ok")
  \/ \E res \in Detections : InitEnd(res)
  \/ PollBegin
  \/ \E res \in Detections : PollEnd(res)
  \/ ReleaseDevicesKill
  \/ R6Release
  \/ \E cd \in SUBSET Devices : R6Spawn(cd)
  \/ \E p \in Pids : StreamExit(p)
  \/ \E p \in Pids : StreamClose(p)
  \/ \E p \in Pids : Watchdog(p)

SpecPoll == InitPlain /\ [][NextPoll]_vars

\* the timer keeps ticking, detection answers, and pending callbacks run
SpecPollFair ==
  /\ InitPlain /\ [][NextPoll]_vars
  /\ WF_vars(InitBegin("ok"))
  /\ WF_vars(\E res \in Detections : InitEnd(res))
  /\ WF_vars(PollBegin)
  /\ WF_vars(\E res \in Detections : PollEnd(res))
  /\ WF_vars(ReleaseDevicesKill)
  /\ WF_vars(R6Release)
  /\ WF_vars(\E cd \in SUBSET Devices : R6Spawn(cd))
  /\ WF_vars(\E p \in Pids : StreamClose(p))

\* a device change reported once start-up has finished
LateDeviceChange == svcInit = "done" /\ DeviceChange

\* the camera, when detection finds one, is a Canon R6 on /dev/video1
R6Detections == {res \in Detections : res.type # "webcam" /\ res.device # 2}

\* the facade with both sources of reconnection checks, the timer's ticks
\* and the device-change callback, and the asynchronous steps of the R6
\* preview set-up
NextOverlap ==
  \/ InitBegin("ok")
  \/ \E res \in R6Detections : InitEnd(res)
  \/ PollBegin
  \/ LateDeviceChange
  \/ \E res \in R6Detections : PollEnd(res)
  \/ ReleaseDevicesKill
  \/ R6Release
  \/ \E cd \in SUBSET {1} : R6Spawn(cd)
  \/ \E p \in Pids : StreamClose(p)

SpecOverlap == InitPlain /\ [][NextOverlap]_vars

\* init, then the first MaxCycles poll cycles, with their history
NextCycles ==
  \/ InitBegin("ok")
  \/ \E res \in Detections : InitEnd(res)
  \/ CycleBegin
  \/ \E res \in Detections : CycleEnd(res)
  \/ ReleaseDevicesKill
  \/ R6Release
  \/ \E cd \in SUBSET Devices : R6Spawn(cd)
  \/ \E p \in Pids : StreamClose(p)

SpecCycles == InitPlain /\ [][NextCycles]_vars

\* the same cycles when the camera, if detection finds one, is a webcam
NextWebcamCycles ==
  \/ InitBegin("ok")
  \/ \E res \in WebcamDetections : InitEnd(res)
  \/ CycleBegin
  \/ \E res \in WebcamDetections : CycleEnd(res)
  \/ ReleaseDevicesKill
  \/ \E p \in Pids : StreamClose(p)

SpecWebcamCycles == InitPlain /\ [][NextWebcamCycles]_vars

Quiescent ==
  /\ releases = 0
  /\ r6setups.release = 0 /\ r6setups.scan = 0
  /\ d5setups = <<>>
  /\ polls = <<>>
  /\ \A p \in Pids : proc[p].st # "exited"

\* the supervisor holds an active handle for a live preview subprocess
HandleLive ==
  /\ mjpegProcess \in Pids
  /\ proc[mjpegProcess].st = "alive"
  /\ proc[mjpegProcess].kind = "stream"

\* C6: after a poll cycle that found the camera connected with a changed
\* identity, once the asynchronous work it set off has run, the supervisor
\* holds an active handle for a live subprocess.
C6_ChangeRestartsStream ==
  (lastEvent = "change" /\ Quiescent) => HandleLive

\* --------------------------------------------------------------- C7
RECURSIVE SumOf(_, _)
SumOf(log, field) ==
  IF log = <<>> THEN 0
  ELSE (IF Head(log).did \in (IF field = "stops" THEN {"disconnect", "change"}
                                                  ELSE {"connect", "change"})
          THEN 1 ELSE 0)
       + SumOf(Tail(log), field)

\* three cycles saw: connected, disconnected, connected on another device path
SawConnDiscConn ==
  /\ Len(cycleLog) = 3
  /\ cycleLog[1].device # Null
  /\ cycleLog[2].device = Null
  /\ cycleLog[3].device # Null
  /\ cycleLog[3].device # cycleLog[1].device

C9_DisconnectUnbinds ==
  lastEvent = "disconnect" =>
    (~cameraConnected /\ v4l2Device = Null /\ cameraType = NoType /\ cameraModel = NoModel)

\* --------------------------------------------------------------- C8
\* the preview ended by itself or by the watchdog, the camera is connected,
\* and no stream has been started since
StreamDown ==
  /\ lastEvent \in {"exit", "watchdog"}
  /\ cameraConnected
  /\ mjpegProcess = Null
  /\ r6setups.release = 0 /\ r6setups.scan = 0

\* C8: if the preview subprocess exits or is terminated by the watchdog
\* while the camera stays connected with an unchanged identity, the preview
\* stream is eventually started again.
C8_StreamRestartsAfterExit == StreamDown ~> ~StreamDown

\* --------------------------------------------------------------- C2
\* C2: a capture request that arrives while another is in flight is answered
\* 429, so at no time are two capture requests in flight, whenever the
\* 'finish' and 'close' events of earlier responses arrive
C2_AtMostOneCaptureInFlight ==
  Cardinality({r \in DOMAIN caps : InFlight(caps[r])}) <= 1

\* --------------------------------------------------------------- C3
\* the chain of request r ends in this step without any method having
\* reported success
AllMethodsFailed(r) ==
  /\ caps[r].pc \in ChainPcs
  /\ caps'[r].pc \notin ChainPcs
  /\ ~(caps[r].pid \in Pids /\ proc[caps[r].pid].code = 0)

\* C3: when the placeholder asset exists and every capture method has
\* failed, by a reported failure or by a thrown error, the capture service
\* returns success with a file at the output path
C3_MockWhenAllFail ==
  [][\A r \in DOMAIN caps :
       (placeholder /\ AllMethodsFailed(r)) => (caps'[r].pc = "post" /\ caps'[r].file)]_vars

\* --------------------------------------------------------------- C4
\* process p is launched in this step as a capture subprocess
CaptureLaunched(p) ==
  /\ proc[p].st = "free"
  /\ proc'[p].st # "free"
  /\ proc'[p].kind = "capture"

\* C4: no capture subprocess is launched against a device on which a preview
\* subprocess is still alive
C4_NoCaptureWhileStreaming ==
  [][\A p \in Pids : CaptureLaunched(p) => ~StreamOn(proc, proc'[p].dev)]_vars

\* --------------------------------------------------------------- C5
\* the standard method of request r, having stopped the stream, ends in this step
StandardEnds(r) ==
  /\ caps[r].pc \in {"stdDelay", "stdRun"}
  /\ caps'[r].pc \notin {"stdDelay", "stdRun"}

\* C5: when the standard capture method ends after stopping the preview
\* stream, the stream is active again: the service holds the handle of a live
\* preview subprocess
C5_StreamActiveAfterStandard ==
  [][\A r \in DOMAIN caps : StandardEnds(r) => HandleLive']_vars

\* -------------------------------------------------------------- C10
\* the background job of restart request j is running
RestartRunning(rs, j) == rs[j].pc \in RestartPcs

RunningRestarts(rs) == {j \in DOMAIN rs : RestartRunning(rs, j)}

\* C10: at most one restart job runs at a time; a restart request that
\* arrives while a job is running is answered 429 and starts no job, and a
\* request answered 429 never runs a step later (it is not queued)
C10_OneRestartAtATime ==
  [][/\ Cardinality(RunningRestarts(restarts')) <= 1
     /\ RunningRestarts(restarts) # {} =>
          \A j \in DOMAIN restarts' \ DOMAIN restarts :
            (restarts'[j].pc = "done" /\ restarts'[j].status = 429)
     /\ \A j \in DOMAIN restarts :
          restarts[j].status = 429 => restarts'[j] = restarts[j]]_vars

\* a request was answered 429 while the job of an earlier request is running
C10_Witness ==
  \E j, k \in DOMAIN restarts :
    /\ j < k
    /\ RestartRunning(restarts, j)
    /\ restarts[k].status = 429
    /\ restarts[k].message = "in progress"

\* -------------------------------------------------------------- C11
\* the earlier requests that arrived less than the cooldown period ago
RequestsInWindow(rs) ==
  {j \in DOMAIN rs : now - rs[j].at < RESTART_COOLDOWN_PERIOD}

\* those of them that were accepted
AcceptedInWindow(rs) == {j \in RequestsInWindow(rs) : rs[j].status = 202}

\* the request answered in this step was rejected and started no job
Rejected(j) == restarts'[j].status = 429 /\ restarts'[j].pc = "done"

\* C11 as claimed: a restart request that arrives when MAX_RECENT_RESTARTS
\* requests have arrived within the cooldown window is answered 429 and
\* starts no job
C11_ExtraRequestRejected ==
  [][\A j \in DOMAIN restarts' \ DOMAIN restarts :
       Cardinality(RequestsInWindow(restarts)) >= MAX_RECENT_RESTARTS => Rejected(j)]_vars

\* C11 amended: a restart request that arrives when MAX_RECENT_RESTARTS
\* requests have been accepted within the cooldown window is answered 429
\* and starts no job
C11_ExtraAcceptedRejected ==
  [][\A j \in DOMAIN restarts' \ DOMAIN restarts :
       Cardinality(AcceptedInWindow(restarts)) >= MAX_RECENT_RESTARTS => Rejected(j)]_vars

\* three restarts ran to their end within the window and a fourth request,
\* arriving with no restart in progress, was answered 429
C11_Witness ==
  \E k \in DOMAIN restarts :
    /\ restarts[k].status = 429
    /\ restarts[k].message = "too many"
    /\ Cardinality({j \in 1..(k - 1) : restarts[j].status = 202
                       /\ restarts[k].at - restarts[j].at < RESTART_COOLDOWN_PERIOD})
         >= MAX_RECENT_RESTARTS

\* -------------------------------------------------------------- C12
\* the viewers that are connected and being served
ConnectedViewers == {v \in DOMAIN viewers : viewers[v].pc \in Watching}

\* C12: the number of simultaneously connected preview viewers never
\* exceeds MAX_STREAM_CONNECTIONS
C12_ViewersWithinCeiling == Cardinality(ConnectedViewers) <= MAX_STREAM_CONNECTIONS

\* -------------------------------------------------------------- C13
\* C13: every live dedicated subprocess belongs to a viewer that is still
\* connected; none outlives its viewer
C13_NoDedicatedOutlivesViewer ==
  \A p \in Pids :
    (proc[p].st = "alive" /\ proc[p].kind = "viewer")
      => \E v \in DOMAIN viewers : viewers[v].pc = "dedicated" /\ viewers[v].pid = p

\* -------------------------------------------------------------- C14
\* the request answered in this step was accepted
Accepted(r) == caps'[r].pc = "aws"

\* request q was answered 200 less than the cooldown interval ago
CompletedRecently(q) ==
  /\ caps[q].pc \in {"responded", "done"}
  /\ caps[q].status = 200
  /\ now - caps[q].at < CAPTURE_COOLDOWN_MS

\* C14: a capture request is accepted only if at least CAPTURE_COOLDOWN_MS
\* have elapsed since every earlier capture completed
C14_CooldownSinceCompletion ==
  [][\A r \in DOMAIN caps' \ DOMAIN caps :
       Accepted(r) => \A q \in DOMAIN caps : ~CompletedRecently(q)]_vars

\* -------------------------------------------------------------- C15
\* C15: after a change of camera family while the timer runs, the timer is
\* armed with the interval of the new family, its ticks still run the
\* reconnection check given at initialisation, and no tick raises an
\* unhandled error
C15_ModeChangeKeepsCheck ==
  /\ ~unhandled
  /\ \A i \in DOMAIN intervals :
       intervals[i].callback /\ intervals[i].ms = reconnectionInterval

\* -------------------------------------------------------------- C16
\* a call of CameraService.init returns in this step: at start-up or as
\* step 9 of a restart job
InitReturns ==
  \/ svcInit = "detecting" /\ svcInit' = "done"
  \/ \E j \in DOMAIN restarts : restarts[j].pc = "init" /\ restarts'[j].pc # "init"

\* C16: every call of CameraService.init leaves exactly one reconnection
\* timer armed, whose ticks run checkCameraReconnection, and no sequence of
\* calls ever leaves two timers armed
C16_InitArmsOneTimer ==
  /\ [][InitReturns => /\ timerArmed'
                       /\ Len(intervals') = 1
                       /\ intervals'[1].callback]_vars
  /\ [](Len(intervals) <= 1)

\* init has run at start-up and again in a restart job, after an earlier job
\* had left a timer without callback whose tick has thrown
C16_Witness ==
  /\ svcInit = "done"
  /\ unhandled
  /\ \E j \in DOMAIN restarts : restarts[j].pc = "alt"
  /\ timerArmed /\ Len(intervals) = 1 /\ intervals[1].callback

C18_StartWhileActiveIsNoOp ==
  mjpegProcess # Null =>
    \A d \in Devices \cup {Null}, t \in Types, m \in Models :
      startStream(World, d, t, m) = World

\* a stream was started and its subprocess is running under the handle
C18_Witness ==
  /\ lastEvent = "start"
  /\ mjpegProcess \in Pids
  /\ proc[mjpegProcess].st = "alive"

\* -------------------------------------------------------------- C19
\* C19: a detection cycle that sees what the cycle before it saw returns
\* what that cycle returned (detected flag, device, type, model)
C19_SameInputSameResult ==
  [][(detInput # NoInput /\ detInput' = detInput) => detResult' = detResult]_vars

\* -------------------------------------------------------------- C20
\* the module reload of job j ends in this step, with sudo available
ReloadEnds(j) ==
  /\ restarts[j].pc \in {"unload", "settle"}
  /\ restarts'[j].pc = "init"
  /\ restarts'[j].sudo

\* C20: after the module reload of a restart job that has the privileges,
\* the loopback module is loaded, whether or not it was loaded before
C20_ReloadLoadsModule ==
  [][\A j \in DOMAIN restarts : ReloadEnds(j) => moduleLoaded']_vars

\* -------------------------------------------------------------- C21
\* deviceManager.init runs in this step: at start-up or as step 8 of a
\* restart job
DeviceManagerInits ==
  \/ svcInit = "new" /\ svcInit' = "detecting"
  \/ \E j \in DOMAIN restarts : restarts[j].pc = "init" /\ restarts'[j].pc # "init"

C22_StatusRecomputed ==
  [][(DeviceManagerInits /\ depsInstalled /\ moduleLoaded') =>
       setupStatus'.setupType \notin {"dependencies", "module"}]_vars

\* -------------------------------------------------------------- C23
\* the path does not exist, is not a character device, or its introspection
\* command fails or cannot be spawned
Unverifiable(in) ==
  \/ ~in.exists
  \/ in.stat # "char"
  \/ in.spawn # "ok"
  \/ in.code # 0

\* C23: verifyDevice never throws or rejects, and returns false for a path
\* that does not exist, is not a character device, or fails introspection
C23_VerifyFalseNeverThrows ==
  verInput # NoProbe =>
    /\ ~verResult.throws
    /\ Unverifiable(verInput) => ~verResult.returns

\* -------------------------------------------------------------- C24
\* stopStream clears the handle and every later assignment of a subprocess
\* to it is made by the step that launches that subprocess, so the subprocess
\* the handle refers to was launched after every stopStream so far
ReleaseKillsCurrent ==
  /\ releases' = releases - 1
  /\ mjpegProcess \in Pids
  /\ proc[mjpegProcess].st = "alive"
  /\ proc'[mjpegProcess].st = "exited"

\* C24: the release that a stopStream triggers never terminates a subprocess
\* launched after that stopStream returned
C24_ReleaseSparesLaterProcesses == [][~ReleaseKillsCurrent]_vars

\* -------------------------------------------------------------- C25
\* the 'close' event of subprocess p is delivered while the handle refers to
\* another subprocess, and the handle is cleared
LateCloseClearsSuccessor(p) ==
  /\ proc[p].st = "exited" /\ proc'[p].st = "free"
  /\ mjpegProcess \in Pids \ {p}
  /\ mjpegProcess' = Null

\* C25: the stream-end callback of a preview subprocess clears the handle
\* only if the handle still refers to that subprocess, so the late exit of a
\* replaced subprocess never clears its successor's handle
C25_LateExitKeepsSuccessor ==
  [][\A p \in Pids : ~LateCloseClearsSuccessor(p)]_vars

\* -------------------------------------------------------------- C26
\* a check returns whose snapshot said disconnected although the facade has
\* been connected since, and it launches a preview set-up of its own
StaleConnectStarts ==
  /\ polls # <<>> /\ polls' = Tail(polls)
  /\ ~Head(polls).connected
  /\ cameraConnected
  /\ \/ r6setups'.release > r6setups.release
     \/ Len(d5setups') > Len(d5setups)
     \/ mjpegProcess = Null /\ mjpegProcess' # Null

\* C26: no reconnection check acts on a stale snapshot: of two overlapping
\* checks that saw the facade disconnected, only the one that makes the
\* transition to connected starts a preview subprocess
C26_OneStartPerTransition == [][~StaleConnectStarts]_vars

\* -------------------------------------------------------------- C27
\* the watchdog's stderr handler runs for subprocess p: p is signalled by a
\* step that is neither a stop, nor a release sweep, nor p's own exit
WatchdogStep(p) ==
  /\ proc[p].st = "alive" /\ proc'[p].st = "exited"
  /\ lastEvent' = "watchdog"
  /\ releases' = releases /\ r6setups' = r6setups

C29_FacadeHandleIsCurrent == svcMjpegProcess = mjpegProcess

\* -------------------------------------------------------------- C30
\* CameraCaptureService.capturePhoto of request r returns in this step
ChainEnds(r) ==
  /\ r \in DOMAIN caps
  /\ caps[r].pc \in ChainPcs
  /\ caps'[r].pc \notin ChainPcs

\* it returns success: true (the facade goes on to processPhoto)
ReportsSuccess(r) == caps'[r].pc = "post"

\* the output file exists when it returns: a capture subprocess has written
\* it, or the mock method, which runs when the fallback fails, copies the
\* placeholder
FileAtEnd(r) ==
  \/ caps[r].file
  \/ (caps[r].pc = "fbRun" /\ proc[caps[r].pid].code # 0 /\ placeholder)

\* the standard method rejects (spawn throws): the chain is left by the catch
\* of capturePhoto and the file is not looked at
MethodRejects(r) == caps[r].pc = "stdDelay"

Rank(pc) ==
  CASE pc \in {"special", "specialRun"} -> 1
    [] pc \in {"std", "stdDelay", "stdRun"} -> 2
    [] pc \in {"fallback", "fbRun"} -> 3
    [] OTHER -> 0

LiveCaptures(pr) == {p \in Pids : pr[p].st = "alive" /\ pr[p].kind = "capture"}

\* the chain of request r enters its first method
ChainBegins(r) ==
  r \in DOMAIN caps /\ caps[r].pc = "aws" /\ caps'[r].pc \in ChainPcs

\* the chain of request r passes from one method to another
MethodChanges(r) ==
  /\ r \in DOMAIN caps
  /\ caps[r].pc \in ChainPcs /\ caps'[r].pc \in ChainPcs
  /\ Rank(caps'[r].pc) # Rank(caps[r].pc)

\* the method that r is in has finished and reported failure: its subprocess,
\* if it launched one, has exited with a non-zero code
MethodFailed(r) ==
  caps[r].pid \in Pids =>
    (proc[caps[r].pid].st = "exited" /\ proc[caps[r].pid].code # 0)

\* C31: the capture methods of a request run one after another in the order
\* specialized (only for an R6 or 5D model), standard, fallback, mock; a
\* method starts only after the one before it has finished and reported
\* failure, and no two capture subprocesses of the request are alive together
C31_MethodsInOrder ==
  [][\A r \in Reqs :
       /\ ChainBegins(r) =>
            Rank(caps'[r].pc) =
              (IF IsR6(v4l2Device, cameraType, cameraModel) \/ Is5D(cameraModel)
                 THEN 1 ELSE 2)
       /\ MethodChanges(r) =>
            (Rank(caps'[r].pc) = Rank(caps[r].pc) + 1 /\ MethodFailed(r))
       /\ Cardinality(LiveCaptures(proc')) <= 1]_vars

\* the fallback method of a request for a specialized camera is running its
\* subprocess: the specialized and the standard method have failed before it
C31_Witness ==
  \E r \in DOMAIN caps :
    /\ caps[r].pc = "fbRun" /\ caps[r].special # "none"
    /\ proc[caps[r].pid].st = "alive"

\* -------------------------------------------------------------- C32
\* job j issues 'modprobe -r v4l2loopback' in this step
UnloadIssued(j) ==
  /\ restarts[j].pc = "unload"
  /\ restarts'[j].pc = "init"

\* C32: when the restart path issues the module unload, no capture or stream
\* subprocess of the service is alive: all were terminated before it and none
\* was started between the termination step and the unload
C32_NoSubprocessAtUnload ==
  [][\A j \in DOMAIN restarts : UnloadIssued(j) => FfmpegAlive(proc) = {}]_vars

\* -------------------------------------------------------------- C33
\* a poll cycle returns in this step with detection result res, which equals
\* the identity the facade is bound to and has been bound to since the cycle
\* took its snapshot
SameIdentityCycle(res) ==
  /\ polls # <<>>
  /\ Head(polls) = Snapshot
  /\ res = Unchanged
  /\ CycleEnd(res)

\* C33: a poll cycle whose detection result equals the bound identity changes
\* nothing: it neither stops nor starts the stream, and identity and handle
\* stay as they are
C33_SameIdentityNoOp ==
  [][\A res \in WebcamDetections :
       SameIdentityCycle(res) => UNCHANGED <<facadeVars, streamVars>>]_vars

\* a cycle has found the connected camera as it was and has done nothing,
\* and the facade is still connected to it
C33_Witness ==
  /\ cameraConnected
  /\ \E i \in DOMAIN cycleLog :
       /\ cycleLog[i].did = "same"
       /\ cycleLog[i].prevConnected
       /\ cycleLog[i].device = v4l2Device

\* -------------------------------------------------------------- C34
\* the scan found capture-capable nodes and none of them names the 5D
UnmarkedScan == selInput.listed # <<>> /\ selInput.marked = Null

\* C34: over a non-empty set of capture-capable nodes none of which carries
\* the 5D marker, the 5D selection chooses an allow-listed node if one is
\* present, and otherwise the node at index floor(n/2) of the ascending
\* order, which is not the lowest-numbered node when n >= 2
C34_AllowListThenMiddle ==
  UnmarkedScan =>
    LET S == Range(selInput.listed)
        n == Cardinality(S)
    IN IF S \cap {14, 15, 21, 22} # {}
         THEN selResult.mk5d \in S \cap {14, 15, 21, 22}
         ELSE /\ selResult.mk5d \in S
              /\ Cardinality({d \in S : d < selResult.mk5d}) = n \div 2
              /\ n >= 2 => selResult.mk5d # MinOf(S)

\* three nodes without marker and off the allow-list were scanned and the
\* middle one was chosen
C34_Witness ==
  /\ UnmarkedScan
  /\ Range(selInput.listed) = {1, 3, 10}
  /\ selResult.mk5d = 3

\* -------------------------------------------------------------- C35
\* C35: a capture-capable node whose introspection names the Canon 5D is the
\* node the 5D selection chooses, also when it is the device path the facade
\* is bound to
C35_MarkedNodeChosen ==
  selInput.marked # Null => selResult.mk5d = selInput.marked

\* -------------------------------------------------------------- C36
\* C36: for the same capture-capable nodes the R6 capture method and the R6
\* stream set-up choose the same node: /dev/video2 if present, else
\* /dev/video1, else the highest-numbered one
C36_R6SameNode ==
  selInput.listed # <<>> =>
    /\ selResult.r6capture = selResult.r6stream
    /\ selResult.r6stream = R6StreamDevice(Range(selInput.listed))

\* -------------------------------------------------------------- C37
\* the upload of this processPhoto call failed
UploadFailed(p) == p.pc = "done" /\ p.publicCopy # "none" /\ ~p.uploaded

\* C37: processPhoto ends with a delivery descriptor, the cloud one only
\* after the upload succeeded and the local one otherwise; the captured file
\* and its public copy are deleted only after a successful upload, and both
\* are still there after an upload that failed
C37_DescriptorAndFiles ==
  \A i \in 1..MaxPhotos :
    LET p == photos[i]
    IN /\ p.pc = "done" => p.result \in {"cloud", "local"}
       /\ p.result = "cloud" => p.uploaded
       /\ (p.pc = "done" /\ ~p.uploaded) => p.result = "local"
       /\ (p.pc # "idle" /\ (~p.localFile \/ p.publicCopy = "deleted")) => p.uploaded
       /\ UploadFailed(p) => p.localFile /\ p.publicCopy = "present"

\* one call uploaded the photo, deleted both files and returned the cloud
\* descriptor; another one's PutObject failed and it returned the local one
C37_Witness ==
  \E i, j \in 1..MaxPhotos :
    /\ photos[i].result = "cloud" /\ ~photos[i].localFile
    /\ photos[i].publicCopy = "deleted"
    /\ UploadFailed(photos[j]) /\ photos[j].result = "local"

\* -------------------------------------------------------------- C38
\* C38: while the facade reports the camera as connected, the setup status
\* it holds reports success and no need of setup
C38_ConnectedMeansSetUp ==
  (cameraConnected /\ svcSetupStatus # NoStatus) =>
    svcSetupStatus.success /\ ~needsSetup(svcSetupStatus)

\* -------------------------------------------------------------- C39
\* restart request j was accepted and its background job has not ended
JobRunning(j) == j \in DOMAIN restarts /\ restarts[j].pc \in RestartPcs

\* C39: every accepted restart is followed by a moment at which its job has
\* ended and restartInProgress is false, whether its steps succeed or throw
C39_GuardReleased ==
  \A j \in 1..MaxTimerJobs : JobRunning(j) ~> (~JobRunning(j) /\ ~restartInProgress)

\* an accepted restart has ended and the guard is free again
C39_Witness ==
  \E j \in Jobs :
    /\ j \in DOMAIN restarts /\ restarts[j].status = 202 /\ restarts[j].pc = "done"
    /\ ~restartInProgress

\* -------------------------------------------------------------- C40
\* C40: whenever control is back in the event loop, the stream service has a
\* URL exactly when it has a handle
C40_UrlIffHandle == (mjpegUrl # NoUrl) <=> (mjpegProcess # Null)

\* the service holds a handle and a URL again after a stop has cleared them
C40_Witness == mjpegUrl # NoUrl /\ mjpegProcess # Null /\ releases > 0

====
